---------------------------- MODULE Spec2Model ----------------------------
(***************************************************************************)
(* NimbusX: the multi-model ensemble fusion engine                         *)
(* (backend/ensemble_predictor.py and the four models it orchestrates).    *)
(*                                                                         *)
(* Numbers.  The program computes in floating point; the model computes    *)
(* in integers that count hundredths (a probability of 35.0 is 3500, a     *)
(* latitude of 25.2 is 2520, a base weight of 0.25 is 25).  A product of   *)
(* two such numbers is divided by 100 again (Mul); divisions round         *)
(* towards minus infinity.  Transcendental sub-expressions (sin, atan,     *)
(* exp, pow, log1p) are tabulated at the values the model's observations   *)
(* produce; every branch, threshold and clamp around them is written out.  *)
(*                                                                         *)
(* Python values.  A dict is a function from its keys; None and opaque     *)
(* nested objects are integers no measurement can take (IsNum).  A call    *)
(* that can raise returns [raised |-> BOOLEAN, value |-> ...].             *)
(***************************************************************************)
EXTENDS Integers, Sequences, FiniteSets, TLC

\* ------------------------------------------------------------ bounds
\* how many of Observations, Dates, Locations and Years a request draws from
NumObs == 5
NumDates == 3
NumLocs == 2
NumYears == 2
\* how many times the calendar year may change while the process runs
MaxTicks == 1

\* ------------------------------------------------------------ arithmetic
Min(a, b) == IF a < b THEN a ELSE b
Max(a, b) == IF a > b THEN a ELSE b
Abs(a) == IF a < 0 THEN 0 - a ELSE a
\* x * c for hundredths x and c
Mul(x, c) == (x * c) \div 100
\* min(100, max(0, x))
Clamp100(x) == Min(10000, Max(0, x))

RECURSIVE SumSeq(_)
SumSeq(s) == IF s = <<>> THEN 0 ELSE Head(s) + SumSeq(Tail(s))

\* sin(k * pi / 6) in ten-thousandths, k any integer
Sin6(k) ==
  <<0, 5000, 8660, 10000, 8660, 5000, 0, -5000, -8660, -10000, -8660, -5000>>[(k % 12) + 1]
\* cos(k * pi / 6) in ten-thousandths
Cos6(k) == Sin6(k + 3)

\* ------------------------------------------------------------ Python values
None == 0 - 999999
\* an opaque non-numeric object (a nested dict of fetched data), tagged n
Opaque(n) == 0 - 900000 - n
IsNum(v) == v > 0 - 800000
\* d.get(k, default)
Get(d, k, default) == IF k \in DOMAIN d THEN d[k] ELSE default
\* bool(d) of a dict-or-None value
Truthy(d) == d.kind = "dict" /\ DOMAIN d.items # {}

risk_types ==
  <<"extreme_heat", "extreme_cold", "heavy_precipitation", "strong_winds", "heat_discomfort">>
RiskSet == {risk_types[i] : i \in 1..Len(risk_types)}
\* a five-category dict from its values in the order of risk_types
Risks(h, c, p, w, d) ==
  [r \in RiskSet |-> CASE r = "extreme_heat" -> h
                       [] r = "extreme_cold" -> c
                       [] r = "heavy_precipitation" -> p
                       [] r = "strong_winds" -> w
                       [] OTHER -> d]

\* ------------------------------------------------------------ inputs
PyDict(f) == [kind |-> "dict", items |-> f]
PyNone == [kind |-> "none", items |-> <<>>]

\* nasa_data values a caller passes.  1-3 are the flat dicts of
\* location_diversity_test.py and spec scenarios A and B; 4 carries a None, as
\* nasa_api.py produces for a missing monthly value; 5 is the raw NASA POWER
\* JSON that app.py passes (no recognised key); 6 is no dict at all.
Observations == <<
  PyDict([lat |-> 2520, lon |-> 5527, temp_max |-> 4200, temp_min |-> 2800,
          humidity |-> 3500, precipitation |-> 10, wind_speed |-> 800, pressure |-> 101500]),
  PyDict([lat |-> 500, lon |-> 10000, temp_max |-> 3100, temp_min |-> 2400,
          humidity |-> 8500, precipitation |-> 1000, wind_speed |-> 300, pressure |-> 100800]),
  PyDict([lat |-> 0 - 7780, lon |-> 16670, temp_max |-> 0 - 2500, temp_min |-> 0 - 3500,
          humidity |-> 6000, precipitation |-> 50, wind_speed |-> 3000, pressure |-> 98000]),
  PyDict([lat |-> 4071, lon |-> 0 - 7401, temp_max |-> 2500, temp_min |-> None,
          humidity |-> 6500, precipitation |-> 50, wind_speed |-> 1200, pressure |-> 101325]),
  PyDict([lat |-> 4071, lon |-> 0 - 7401, temp_max |-> None, temp_min |-> 1800,
          humidity |-> 6500, precipitation |-> 50, wind_speed |-> 1200, pressure |-> 101325]),
  PyDict([type |-> Opaque(9), properties |-> Opaque(8)]),
  PyNone,
  PyDict([lat |-> 6415, lon |-> 0 - 2194, temp_max |-> 500, temp_min |-> 0 - 200,
          humidity |-> 7500, precipitation |-> 300, wind_speed |-> 2500, pressure |-> 102000])
>>

\* target_date strings, character by character
Dates == <<
  <<"0", "7", "-", "1", "5">>,
  <<"x", "x", "-", "1", "5">>,
  <<"0", "7", "-", "x", "x">>,
  <<"0", "1", "-", "1", "5">>,
  <<"0", "7", "1", "5">>,
  <<"0", "4", "-", "1", "5">>
>>

\* location_data bundles
Locations == <<
  PyNone,
  PyDict([lat |-> 4071, lon |-> 0 - 7401]),
  PyDict([lat |-> 0, lon |-> 0])
>>

\* target_year values; the process starts in calendar year 2024
StartYear == 2024
Years == <<None, 2024, 2030, 2020>>

\* ------------------------------------------------------------ date parsing
DigitVal ==
  [c \in {"0", "1", "2", "3", "4", "5", "6", "7", "8", "9"} |->
     CASE c = "0" -> 0 [] c = "1" -> 1 [] c = "2" -> 2 [] c = "3" -> 3 [] c = "4" -> 4
       [] c = "5" -> 5 [] c = "6" -> 6 [] c = "7" -> 7 [] c = "8" -> 8 [] OTHER -> 9]
IsDigits(s) == Len(s) > 0 /\ \A i \in 1..Len(s) : s[i] \in DOMAIN DigitVal
RECURSIVE DigitsValue(_)
DigitsValue(s) ==
  IF s = <<>> THEN 0 ELSE DigitsValue(SubSeq(s, 1, Len(s) - 1)) * 10 + DigitVal[s[Len(s)]]
\* int(s): ValueError unless s is a run of digits
PyInt(s) == IF IsDigits(s) THEN [raised |-> FALSE, value |-> DigitsValue(s)]
            ELSE [raised |-> TRUE, value |-> 0]
\* '-' in s
HasDash(s) == \E i \in 1..Len(s) : s[i] = "-"
DashAt(s, from) == CHOOSE i \in from..(Len(s) + 1) :
  /\ (i = Len(s) + 1 \/ s[i] = "-")
  /\ \A j \in from..(i - 1) : s[j] # "-"
\* s.split('-')[0] and s.split('-')[1]
SplitPart0(s) == SubSeq(s, 1, DashAt(s, 1) - 1)
SplitPart1(s) == SubSeq(s, DashAt(s, 1) + 1, DashAt(s, DashAt(s, 1) + 1) - 1)
\* int(target_date.split('-')[0]) if '-' in target_date else 7
ParseMonth(target_date) ==
  IF HasDash(target_date) THEN PyInt(SplitPart0(target_date))
  ELSE [raised |-> FALSE, value |-> 7]
\* int(target_date.split('-')[1]) if '-' in target_date else 15
ParseDay(target_date) ==
  IF HasDash(target_date) THEN PyInt(SplitPart1(target_date))
  ELSE [raised |-> FALSE, value |-> 15]
\* days of each month in 1900, the year strptime assumes for '%m-%d'
MonthDays == <<31, 28, 31, 30, 31, 30, 31, 31, 30, 31, 30, 31>>
\* datetime.strptime(target_date, '%m-%d').month
Strptime(target_date) ==
  LET d1 == DashAt(target_date, 1)
      m == SubSeq(target_date, 1, d1 - 1)
      d == SubSeq(target_date, d1 + 1, Len(target_date))
      ok == /\ HasDash(target_date)
            /\ IsDigits(m) /\ Len(m) <= 2
            /\ IsDigits(d) /\ Len(d) <= 2
            /\ DigitsValue(m) \in 1..12
            /\ DigitsValue(d) \in 1..MonthDays[DigitsValue(m)]
  IN IF ok THEN [raised |-> FALSE, value |-> DigitsValue(m)]
     ELSE [raised |-> TRUE, value |-> 0]


\* ------------------------------------------------------------ coordinator helpers
\* EnsembleWeatherPredictor._get_climate_default (lat is a number)
_get_climate_default(param, lat, month) ==
  LET temp_max_default ==
        LET base_temp == 2500 - Mul(Abs(lat), 30)
            seasonal_var == Cos6(month - 7) \div 10
        IN base_temp + (IF lat < 0 THEN 0 - seasonal_var ELSE seasonal_var)
  IN CASE param \in {"temp_max", "temp_avg"} -> temp_max_default
       [] param = "temp_min" -> temp_max_default - (1000 + Mul(Abs(lat), 10))
       [] param = "humidity" ->
            IF Abs(lat) < 1500 THEN 7000 + Sin6(month - 1) \div 10
            ELSE 6000 + Sin6(month - 7) \div 20
       [] param = "precipitation" ->
            IF Abs(lat) < 1500 THEN 500 + (8 * Sin6(month - 1)) \div 100
            ELSE IF Abs(lat) < 3500 THEN 200 + (3 * Sin6(month + 3)) \div 100
            ELSE 300 + (2 * Sin6(month - 4)) \div 100
       [] param = "wind_speed" -> 500 + Mul(Abs(lat), 5) + (2 * Sin6(month - 1)) \div 100
       [] param = "pressure" -> 101325 - Mul(Abs(lat), 10)
       [] OTHER -> 0

month_params ==
  {"temp_max", "temp_min", "temp_avg", "humidity", "precipitation", "wind_speed",
   "pressure", "solar_radiation"}

\* EnsembleWeatherPredictor._extract_month_specific_nasa_data.  The model's
\* observations carry generic keys only, so of the lookup chain (month key,
\* generic key, monthly array, climate default) the second and fourth act.
_extract_month_specific_nasa_data(nasa_data, target_month) ==
  IF nasa_data.kind # "dict" THEN [raised |-> TRUE, value |-> <<>>]
  ELSE LET d == nasa_data.items
           lat == Get(d, "lat", 0)
       IN [raised |-> FALSE,
           value |-> [k \in month_params \cup {"lat", "lon"} |->
                        IF k \in {"lat", "lon"} THEN Get(d, k, 0)
                        ELSE IF k \in DOMAIN d THEN d[k]
                        ELSE _get_climate_default(k, lat, target_month)]]

\* count of the values v of the sequence with v > 0
RECURSIVE CountPositive(_)
CountPositive(s) ==
  IF s = <<>> THEN 0 ELSE (IF Head(s) > 0 THEN 1 ELSE 0) + CountPositive(Tail(s))

\* the bands closed above: a latitude on a boundary falls in the lower band
ClimateZone_BoundaryInLowerBand(lat) ==
  IF Abs(lat) <= 1000 THEN <<"equatorial", 7000, 500, 150>>
  ELSE IF Abs(lat) <= 2350 THEN <<"tropical", 6000, 1000, 130>>
  ELSE IF Abs(lat) <= 3500 THEN <<"subtropical", 5000, 2000, 100>>
  ELSE IF Abs(lat) <= 5000 THEN <<"temperate", 3500, 3000, 80>>
  ELSE IF Abs(lat) <= 6650 THEN <<"subpolar", 2000, 5000, 60>>
  ELSE <<"polar", 1000, 7000, 40>>

\* climate zone of a latitude: <<zone, heat_baseline, cold_baseline, precip_multiplier>>
ClimateZone(lat) ==
  IF Abs(lat) < 1000 THEN <<"equatorial", 7000, 500, 150>>
  ELSE IF Abs(lat) < 2350 THEN <<"tropical", 6000, 1000, 130>>
  ELSE IF Abs(lat) < 3500 THEN <<"subtropical", 5000, 2000, 100>>
  ELSE IF Abs(lat) < 5000 THEN <<"temperate", 3500, 3000, 80>>
  ELSE IF Abs(lat) < 6650 THEN <<"subpolar", 2000, 5000, 60>>
  ELSE <<"polar", 1000, 7000, 40>>

\* the seasons of the northern hemisphere applied at every latitude
SeasonalFactors_NorthernEverywhere(lat, month) ==
  IF month \in {6, 7, 8} THEN <<140, 30>>
  ELSE IF month \in {12, 1, 2} THEN <<40, 160>>
  ELSE <<100, 100>>

\* <<seasonal_heat_factor, seasonal_cold_factor>> of a latitude and month
SeasonalFactors(lat, month) ==
  LET hemisphere == IF lat >= 0 THEN "north" ELSE "south"
  IN IF hemisphere = "north"
     THEN (IF month \in {6, 7, 8} THEN <<140, 30>>
           ELSE IF month \in {12, 1, 2} THEN <<40, 160>>
           ELSE <<100, 100>>)
     ELSE (IF month \in {12, 1, 2} THEN <<140, 30>>
           ELSE IF month \in {6, 7, 8} THEN <<40, 160>>
           ELSE <<100, 100>>)

\* EnsembleWeatherPredictor._calculate_location_specific_statistics; d is a dict
_calculate_location_specific_statistics(d, target_date) ==
  LET lat == Get(d, "lat", 0)
      temp_max == Get(d, "temp_max", 2000)
      temp_min == Get(d, "temp_min", 1500)
      humidity == Get(d, "humidity", 6000)
      precipitation == Get(d, "precipitation", 0)
      wind_speed == Get(d, "wind_speed", 500)
      pm == ParseMonth(target_date)
      pd == ParseDay(target_date)
      month == pm.value
      zone == ClimateZone(lat)
      sf == SeasonalFactors(lat, month)
      heat_risk ==
        Clamp100(Mul(zone[2], sf[1])
                 + (IF temp_max > 2500 THEN (temp_max - 2500) * 2 ELSE 0)
                 + (IF humidity > 7000 THEN Mul(humidity, 30) ELSE 0))
      cold_risk ==
        Clamp100(Mul(zone[3], sf[2])
                 + (IF temp_min < 1500 THEN (1500 - temp_min) * 2 ELSE 0)
                 + (IF temp_min < 1000 THEN Mul(wind_speed, 50) ELSE 0))
      precip0 == Mul(precipitation * 15, zone[4])
      precip_risk ==
        Clamp100(IF month \in {3, 4, 5, 9, 10, 11} THEN Mul(precip0, 120) ELSE precip0)
      wind0 == wind_speed * 4
      wind1 == IF Abs(lat) > 4000 THEN Mul(wind0, 120) ELSE wind0
      wind_risk == Clamp100(IF month \in {11, 12, 1, 2, 3} THEN Mul(wind1, 110) ELSE wind1)
      heat_discomfort ==
        Clamp100(Mul(Mul(temp_max, 120) + Mul(humidity, 80) - 4000, sf[1]))
      present == CountPositive(<<temp_max, temp_min, humidity, precipitation, wind_speed>>)
      zone_confidence == IF zone[1] \in {"tropical", "temperate"} THEN 90 ELSE 80
      confidence == present * 1200 + zone_confidence * 40
  IN IF \/ \E v \in {lat, temp_max, temp_min, humidity, precipitation, wind_speed} : ~IsNum(v)
        \/ pm.raised \/ pd.raised
     THEN [raised |-> TRUE, value |-> <<>>]
     ELSE [raised |-> FALSE,
           value |-> [predictions |->
                        Risks(heat_risk, cold_risk, precip_risk, wind_risk, heat_discomfort),
                      confidence |-> confidence,
                      climate_zone |-> zone[1],
                      seasonal_factor |-> sf[1]]]

\* random.seed(s); the five random.uniform draws of _get_fallback_prediction,
\* for the seeds s the model lets hash(str(nasa_data)) % 1000 take
RandomDraws(s) ==
  CASE s = 0 -> Risks(4033, 2895, 3262, 2147, 4034)
    [] s = 942 -> Risks(4434, 1539, 4115, 2041, 5389)
HashSeeds == {0, 942}

\* a substitute that itself fails: the percentile lookup it would need is gone
_get_fallback_prediction_Raising(confidence, nasa_data, target_date, seed) ==
  [raised |-> TRUE, value |-> <<>>]

\* EnsembleWeatherPredictor._get_fallback_prediction; seed is
\* hash(str(nasa_data)) % 1000 of this process
_get_fallback_prediction(confidence, nasa_data, target_date, seed) ==
  IF Truthy(nasa_data)
  THEN LET d == nasa_data.items
           lat == Get(d, "lat", 0)
           temp_max == Get(d, "temp_max", 2000)
           humidity == Get(d, "humidity", 6000)
           precipitation == Get(d, "precipitation", 0)
           wind_speed == Get(d, "wind_speed", 500)
           pm == ParseMonth(target_date)
           month == pm.value
           base ==
             IF Abs(lat) < 2350
             THEN <<6000 + (temp_max - 2500) * 2,
                    Max(500, 3000 - Abs(lat)),
                    4000 + precipitation * 10>>
             ELSE IF Abs(lat) < 5000
             THEN <<4000 + Mul(temp_max - 2000, 150),
                    2000 + Mul(2500 - temp_max, 150),
                    3000 + precipitation * 8>>
             ELSE <<Max(1000, 2000 + Mul(temp_max - 1000, 120)),
                    5000 + (1500 - temp_max) * 2,
                    2000 + precipitation * 6>>
           seasonal_factor ==
             IF month \in {12, 1, 2} THEN (IF lat > 0 THEN 130 ELSE 70)
             ELSE IF month \in {6, 7, 8} THEN (IF lat < 0 THEN 130 ELSE 70)
             ELSE 100
       IN IF \/ \E v \in {lat, temp_max, humidity, precipitation, wind_speed} : ~IsNum(v)
             \/ pm.raised
          THEN [raised |-> TRUE, value |-> <<>>]
          ELSE [raised |-> FALSE,
                value |-> [predictions |->
                             Risks(Clamp100(Mul(base[1], 200 - seasonal_factor)),
                                   Clamp100(Mul(base[2], seasonal_factor)),
                                   Clamp100(base[3]),
                                   Clamp100(2000 + wind_speed * 3),
                                   Clamp100(Mul(temp_max, 150) + Mul(humidity, 50) - 2000)),
                           confidence |-> confidence]]
  ELSE [raised |-> FALSE,
        value |-> [predictions |-> RandomDraws(seed), confidence |-> confidence]]

\* EnsembleWeatherPredictor._statistical_ml_approximation; d is a dict
_statistical_ml_approximation(d, target_date) ==
  LET base_stats == _calculate_location_specific_statistics(d, target_date)
      p0 == base_stats.value.predictions
      lat == Get(d, "lat", 0)
      temp_max == Get(d, "temp_max", 2000)
      humidity == Get(d, "humidity", 6000)
      p1 == IF Abs(lat) < 1500 /\ humidity > 8000
            THEN [p0 EXCEPT !["heavy_precipitation"] = Mul(@, 130),
                            !["heat_discomfort"] = Mul(@, 120)]
            ELSE p0
      p2 == IF Abs(lat) > 3000 /\ temp_max < 1000
            THEN [p1 EXCEPT !["extreme_cold"] = Mul(@, 140),
                            !["strong_winds"] = Mul(@, 120)]
            ELSE p1
      p3 == IF 2000 < Abs(lat) /\ Abs(lat) < 3500 /\ humidity < 4000
            THEN [p2 EXCEPT !["extreme_heat"] = Mul(@, 130),
                            !["heavy_precipitation"] = Mul(@, 50)]
            ELSE p2
  IN IF base_stats.raised THEN [raised |-> TRUE, value |-> <<>>]
     ELSE [raised |-> FALSE,
           value |-> [predictions |-> p3,
                      confidence |-> Mul(base_stats.value.confidence, 85)]]

\* a global fallback of 50 in every category
_get_ensemble_fallback_Uniform ==
  [probabilities |-> Risks(5000, 5000, 5000, 5000, 5000),
   accuracy_metrics |-> [data_quality_score |-> 6000,
                         statistical_confidence |-> 5000,
                         model_reliability |-> 4000,
                         overall_confidence |-> 5000,
                         uncertainty_level |-> "HIGH"],
   ensemble_method |-> "Fallback Mode",
   summary |-> "Using fallback predictions due to ensemble system error."]

\* EnsembleWeatherPredictor._get_ensemble_fallback
_get_ensemble_fallback ==
  [probabilities |-> Risks(3000, 2000, 3500, 2500, 4000),
   accuracy_metrics |-> [data_quality_score |-> 6000,
                         statistical_confidence |-> 5000,
                         model_reliability |-> 4000,
                         overall_confidence |-> 5000,
                         uncertainty_level |-> "HIGH"],
   ensemble_method |-> "Fallback Mode",
   summary |-> "Using fallback predictions due to ensemble system error."]

\* ------------------------------------------------------------ fusion
\* the keys of model_outputs in insertion order (steps 2 to 5 insert in this order)
ModelOrder == <<"neural", "statistical", "ml", "physics">>
Entries(model_outputs) == SelectSeq(ModelOrder, LAMBDA m : m \in DOMAIN model_outputs)

\* np.mean of a non-empty sequence
Mean(s) == SumSeq(s) \div Len(s)
\* np.var of a non-empty sequence of hundredths, in hundredths
Var(s) ==
  LET m == Mean(s)
  IN (SumSeq([i \in 1..Len(s) |-> (s[i] - m) * (s[i] - m)]) \div Len(s)) \div 100

\* [output['predictions'].get(risk_type, 0) for output in model_outputs.values()]
PredictionsOf(model_outputs, risk_type) ==
  LET names == Entries(model_outputs)
  IN [i \in 1..Len(names) |-> Get(model_outputs[names[i]].predictions, risk_type, 0)]

\* the base weight looked up under the key the weights are stored under
AdaptiveWeights_ByStoredKey(model_outputs, weights) ==
  LET names == Entries(model_outputs)
      stored == [neural |-> "neural_model", statistical |-> "statistical_model",
                 ml |-> "ml_model", physics |-> "physics_model"]
  IN [i \in 1..Len(names) |->
        LET output == model_outputs[names[i]]
            innovation_bonus == IF names[i] = "neural" THEN 12 ELSE 10
            temporal_bonus == IF "detailed_results" \in DOMAIN output THEN 11 ELSE 10
        IN (Get(weights, stored[names[i]], 0) * output.confidence * innovation_bonus
              * temporal_bonus) \div 1000]

\* the list `weights` of one risk type before normalisation, in 1/1000 of the
\* product base weight x confidence x innovation_bonus x temporal_bonus
AdaptiveWeights(model_outputs, weights) ==
  LET names == Entries(model_outputs)
  IN [i \in 1..Len(names) |->
        LET output == model_outputs[names[i]]
            innovation_bonus == IF names[i] = "neural" THEN 12 ELSE 10
            temporal_bonus == IF "detailed_results" \in DOMAIN output THEN 11 ELSE 10
        IN (Get(weights, names[i], 0) * output.confidence * innovation_bonus * temporal_bonus)
             \div 1000]

\* a fusion that returns the first collected model's predictions
_combine_advanced_predictions_FirstModelOnly(model_outputs, weights) ==
  LET raw == AdaptiveWeights(model_outputs, weights)
      value(risk_type) ==
        LET predictions == PredictionsOf(model_outputs, risk_type)
        IN Clamp100(IF Len(predictions) > 0 THEN predictions[1] ELSE 5000)
  IN [combined |-> [r \in RiskSet |-> value(r)],
      weights |-> [r \in RiskSet |-> raw]]

\* EnsembleWeatherPredictor._combine_advanced_predictions.  `combined` is what
\* the method returns; `weights` is its local list of that name as it stands
\* when the category's value is computed (normalised weights in 1/10000 when
\* their sum is positive, the raw adaptive weights otherwise).
_combine_advanced_predictions(model_outputs, weights) ==
  LET raw == AdaptiveWeights(model_outputs, weights)
      total == SumSeq(raw)
      norm == [i \in 1..Len(raw) |-> (raw[i] * 10000) \div total]
      value(risk_type) ==
        LET predictions == PredictionsOf(model_outputs, risk_type)
        IN Clamp100(IF total > 0
                    THEN SumSeq([i \in 1..Len(raw) |-> predictions[i] * norm[i]]) \div 10000
                    ELSE IF Len(predictions) > 0 THEN Mean(predictions) ELSE 5000)
  IN [combined |-> [r \in RiskSet |-> value(r)],
      weights |-> [r \in RiskSet |-> IF total > 0 THEN norm ELSE raw]]

\* the labels of the two outer bands exchanged
UncertaintyLevel_Inverted(overall_confidence) ==
  IF overall_confidence > 8000 THEN "HIGH"
  ELSE IF overall_confidence > 6000 THEN "MODERATE"
  ELSE "LOW"

\* 'LOW' if overall_confidence > 80 else 'MODERATE' if overall_confidence > 60 else 'HIGH'
UncertaintyLevel(overall_confidence) ==
  IF overall_confidence > 8000 THEN "LOW"
  ELSE IF overall_confidence > 6000 THEN "MODERATE"
  ELSE "HIGH"

\* EnsembleWeatherPredictor._calculate_advanced_ensemble_confidence
_calculate_advanced_ensemble_confidence(model_outputs) ==
  LET names == Entries(model_outputs)
      confidences == [i \in 1..Len(names) |-> model_outputs[names[i]].confidence]
      data_quality_score == Mean(confidences)
      innovation_boost ==
        IF "neural" \in DOMAIN model_outputs
        THEN Min(1500, Get(model_outputs["neural"], "innovation_score", 0) \div 10)
        ELSE 0
      temporal_consistency ==
        IF "neural" \in DOMAIN model_outputs
           /\ "detailed_results" \in DOMAIN model_outputs["neural"]
           /\ "meta_ensemble" \in DOMAIN model_outputs["neural"].detailed_results
        THEN Get(Get(model_outputs["neural"].detailed_results.meta_ensemble,
                     "meta_confidence", <<>>),
                 "temporal_consistency", 8500)
        ELSE 8500
      agreements ==
        IF Len(names) > 1
        THEN [i \in 1..Len(risk_types) |->
                Max(0, 10000 - Var(PredictionsOf(model_outputs, risk_types[i])))]
        ELSE <<>>
      statistical_confidence == IF Len(agreements) > 0 THEN Mean(agreements) ELSE 8000
      successful_models == Cardinality({m \in DOMAIN model_outputs :
                                          model_outputs[m].confidence > 6000})
      model_reliability == (successful_models * 10000) \div Len(names)
      overall_confidence ==
        (data_quality_score * 30 + statistical_confidence * 25 + model_reliability * 20
         + temporal_consistency * 15 + innovation_boost * 10) \div 100
  IN [data_quality_score |-> data_quality_score,
      statistical_confidence |-> statistical_confidence,
      model_reliability |-> model_reliability,
      temporal_consistency |-> temporal_consistency,
      innovation_confidence |-> innovation_boost * 10,
      overall_confidence |-> Min(10000, overall_confidence),
      uncertainty_level |-> UncertaintyLevel(overall_confidence)]

\* EnsembleWeatherPredictor._analyze_temporal_consistency
_analyze_temporal_consistency(model_outputs) ==
  LET has_detail == "neural" \in DOMAIN model_outputs
                    /\ "detailed_results" \in DOMAIN model_outputs["neural"]
      detailed == model_outputs["neural"].detailed_results
      horizon(h, default) ==
        IF has_detail /\ "predictions" \in DOMAIN detailed /\ h \in DOMAIN detailed.predictions
        THEN Get(Get(detailed.predictions[h], "confidence_metrics", <<>>),
                 "overall_confidence", default)
        ELSE default
  IN [short_term_reliability |-> horizon("short_term", 8500),
      seasonal_reliability |-> horizon("seasonal", 7500),
      climate_reliability |-> horizon("climate", 6000),
      cross_horizon_consistency |->
        IF has_detail /\ "meta_ensemble" \in DOMAIN detailed
        THEN Get(Get(detailed.meta_ensemble, "meta_confidence", <<>>),
                 "temporal_consistency", 8000)
        ELSE 8000]

\* EnsembleWeatherPredictor._calculate_innovation_metrics
_calculate_innovation_metrics(model_outputs) ==
  LET has(m) == m \in DOMAIN model_outputs
      methodologies_used ==
        (IF has("neural") THEN <<"Advanced Neural Networks">> ELSE <<>>)
        \o (IF has("physics") THEN <<"Atmospheric Physics">> ELSE <<>>)
        \o (IF has("ml") THEN <<"Machine Learning">> ELSE <<>>)
        \o (IF has("statistical") THEN <<"Statistical Analysis">> ELSE <<>>)
      advanced_algorithms ==
        (IF has("neural") THEN <<"TCN", "Attention", "Chaos Theory", "Spectral Analysis">>
         ELSE <<>>)
        \o (IF has("physics") THEN <<"WBGT", "Geostrophic Wind", "Coriolis Effect">> ELSE <<>>)
        \o (IF has("ml") THEN <<"Random Forest", "Gradient Boosting">> ELSE <<>>)
      prediction_techniques ==
        (IF has("neural") THEN <<"Multi-Temporal Ensemble">> ELSE <<>>)
        \o (IF has("statistical") THEN <<"Percentile Analysis">> ELSE <<>>)
      score0 == IF has("neural") THEN Get(model_outputs["neural"], "innovation_score", 0) ELSE 0
      temporal_horizons ==
        IF has("neural") /\ "detailed_results" \in DOMAIN model_outputs["neural"]
           /\ "predictions" \in DOMAIN model_outputs["neural"].detailed_results
        THEN Cardinality(DOMAIN model_outputs["neural"].detailed_results.predictions)
        ELSE 1
      composite ==
        Min(10000, Len(methodologies_used) * 2000
                   + Min(3000, Len(advanced_algorithms) * 300)
                   + Min(2000, temporal_horizons * 500))
  IN [methodologies_used |-> methodologies_used,
      innovation_score |-> IF score0 = 0 THEN composite ELSE score0,
      temporal_horizons |-> temporal_horizons,
      advanced_algorithms |-> advanced_algorithms,
      prediction_techniques |-> prediction_techniques]

\* max(predictions, key=predictions.get): the first category, in insertion
\* order, that attains the largest value
ArgMax(predictions) ==
  LET best == CHOOSE v \in {predictions[r] : r \in RiskSet} :
                \A r \in RiskSet : predictions[r] <= v
      i == CHOOSE j \in 1..Len(risk_types) :
             /\ predictions[risk_types[j]] = best
             /\ \A k \in 1..(j - 1) : predictions[risk_types[k]] # best
  IN risk_types[i]

\* EnsembleWeatherPredictor._generate_advanced_summary: the parts the summary
\* sentence is formatted from
_generate_advanced_summary(predictions, confidence, innovation, target_date) ==
  LET max_risk_type == ArgMax(predictions)
      max_risk == predictions[max_risk_type]
      conf_score == confidence.overall_confidence
  IN [risk_name |-> max_risk_type,
      risk_level |-> IF max_risk > 8000 THEN "VERY HIGH"
                     ELSE IF max_risk > 6000 THEN "HIGH"
                     ELSE IF max_risk > 4000 THEN "MODERATE"
                     ELSE "LOW",
      max_risk |-> max_risk,
      conf_level |-> IF conf_score > 8500 THEN "VERY HIGH"
                     ELSE IF conf_score > 7000 THEN "HIGH"
                     ELSE IF conf_score > 5500 THEN "MODERATE"
                     ELSE "LOW",
      conf_score |-> conf_score,
      innovation_highlight |->
        IF innovation.innovation_score > 8000
        THEN SubSeq(innovation.advanced_algorithms, 1,
                    Min(3, Len(innovation.advanced_algorithms)))
        ELSE <<>>,
      methodologies |-> innovation.methodologies_used]

\* ------------------------------------------------------------ physics model
\* transcendental terms at the values the observations and climate defaults take
\* atan(0.151977 * sqrt(humidity + 8.313659)) in ten-thousandths, humidity in hundredths
WetBulbSlope(humidity) ==
  CASE humidity = 3500 -> 7855
    [] humidity = 6000 -> 8984
    [] humidity = 6500 -> 9156
    [] humidity = 7000 -> 9314
    [] humidity = 7500 -> 9462
    [] humidity = 8000 -> 9600
    [] humidity = 8500 -> 9728

\* -atan(humidity - 1.676331) + 0.00391838 * humidity**1.5 * atan(0.023101 * humidity) - 4.686035, in hundredths
WetBulbOffset(humidity) ==
  CASE humidity = 3500 -> 0 - 568
    [] humidity = 6000 -> 0 - 452
    [] humidity = 6500 -> 0 - 422
    [] humidity = 7000 -> 0 - 391
    [] humidity = 7500 -> 0 - 358
    [] humidity = 8000 -> 0 - 323
    [] humidity = 8500 -> 0 - 287

\* math.atan(x) in hundredths, x in hundredths
Atan(x) ==
  CASE x = 3500 -> 154
    [] x = 7700 -> 156
    [] x = 8000 -> 156
    [] x = 8500 -> 156
    [] x = 9000 -> 156
    [] x = 10500 -> 156
    [] x = 11600 -> 156

\* 6.112 * math.exp((17.67 * temp) / (temp + 243.5)) in hundredths of hPa
ESat(temp) ==
  CASE temp = 0 - 2500 -> 81
    [] temp = 500 -> 872
    [] temp = 1500 -> 1704
    [] temp = 2500 -> 3167
    [] temp = 3100 -> 4496
    [] temp = 3500 -> 5631
    [] temp = 4200 -> 8224

\* wind_speed ** 0.16 in ten-thousandths
Pow016(wind_speed) ==
  CASE wind_speed = 300 -> 11922
    [] wind_speed = 500 -> 12937
    [] wind_speed = 700 -> 13653
    [] wind_speed = 800 -> 13947
    [] wind_speed = 1200 -> 14882
    [] wind_speed = 2500 -> 16737
    [] wind_speed = 3000 -> 17232

\* math.sin(math.radians(latitude)) in ten-thousandths
SinRadians(latitude) ==
  CASE latitude = 0 - 9000 -> 0 - 10000
    [] latitude = 0 - 7780 -> 0 - 9774
    [] latitude = 0 -> 0
    [] latitude = 500 -> 872
    [] latitude = 2520 -> 4258
    [] latitude = 4071 -> 6522
    [] latitude = 6415 -> 8999
    [] latitude = 9000 -> 10000

\* PhysicsWeatherModel.calculate_heat_stress_index (solar_radiation = 800)
calculate_heat_stress_index(temp, humidity, wind_speed) ==
  LET wet_bulb == (temp * WetBulbSlope(humidity)) \div 10000
                  + Atan(temp + humidity) + WetBulbOffset(humidity)
      globe_temp == temp + 160
      wbgt == IF wind_speed < 300
              THEN (70 * wet_bulb + 20 * globe_temp + 10 * temp) \div 100
              ELSE (70 * wet_bulb + 30 * temp) \div 100
      heat_risk == IF wbgt < 2700 THEN 0
                   ELSE IF wbgt < 3200 THEN (wbgt - 2700) * 20
                   ELSE 10000
  IN Clamp100(heat_risk)

\* PhysicsWeatherModel.calculate_precipitation_potential (pressure # 0)
calculate_precipitation_potential(temp, humidity, pressure, wind_speed) ==
  LET e_sat == ESat(temp)
      e_actual == (e_sat * humidity) \div 10000
      precipitable_water == ((e_actual * 100000) \div pressure) * 10
      instability == Max(0, ((temp - 1500) * (humidity - 7000)) \div 10000)
      convergence == Min(wind_speed \div 10, 100)
      precip_potential == Mul(precipitable_water, 40) + Mul(instability, 30)
                          + Mul(convergence, 20) + (100000 - pressure) \div 10
  IN Clamp100(precip_potential)

\* integer square root of n <= hi * hi
Isqrt(n, hi) == CHOOSE k \in 0..hi : k * k <= n /\ (k + 1) * (k + 1) > n

\* the wind estimate without its geostrophic part
calculate_wind_risk_ThermalOnly(pressure_gradient, temp_gradient, latitude) ==
  LET thermal_wind == (temp_gradient * 2) \div 100
  IN Max(0, Min(10000, (thermal_wind * 10000) \div 15))

\* PhysicsWeatherModel.calculate_wind_risk.  coriolis_parameter is in units of
\* 1e-10 per second; wind speeds are whole metres per second, and a speed
\* above 100 m/s is held at 100 (the risk saturates at 15 m/s).
calculate_wind_risk(pressure_gradient, temp_gradient, latitude) ==
  LET coriolis0 == (14584 * SinRadians(latitude)) \div 100
      coriolis_parameter == IF Abs(coriolis0) < 1 THEN 1 ELSE coriolis0
      \* pressure_gradient / (1.225 * abs(coriolis_parameter)), in km/s first
      geostrophic_km == (pressure_gradient * 100000)
                        \div Max(1, (1225 * Abs(coriolis_parameter)) \div 1000)
      geostrophic_wind == Min(100, Min(100, geostrophic_km) * 1000)
      thermal_wind == (temp_gradient * 2) \div 100
      total_wind == Isqrt(geostrophic_wind * geostrophic_wind + thermal_wind * thermal_wind, 200)
      wind_risk == Min(10000, (total_wind * 10000) \div 15)
  IN Max(0, wind_risk)

\* a second segment of the risk scale that starts at 25 instead of 50
calculate_cold_risk_LowSecondSegment(temp, wind_speed, humidity) ==
  IF temp > 1000 THEN 0
  ELSE LET wind_chill ==
             IF wind_speed < 480 THEN temp
             ELSE 1312 + (6215 * temp) \div 10000
                  - (1137 * Pow016(wind_speed)) \div 10000
                  + (((3965 * temp) \div 10000) * Pow016(wind_speed)) \div 10000
           humidity_factor == 100 + (5000 - humidity) \div 200
           effective_chill == Mul(wind_chill, humidity_factor)
           cold_risk == IF effective_chill > 0 THEN 0
                        ELSE IF effective_chill > 0 - 1500
                        THEN Mul(0 - effective_chill, 333)
                        ELSE 2500 + ((0 - 1500) - effective_chill) * 2
       IN Clamp100(cold_risk)

\* PhysicsWeatherModel.calculate_cold_risk (wind_speed >= 0)
calculate_cold_risk(temp, wind_speed, humidity) ==
  IF temp > 1000 THEN 0
  ELSE LET wind_chill ==
             IF wind_speed < 480 THEN temp
             ELSE 1312 + (6215 * temp) \div 10000
                  - (1137 * Pow016(wind_speed)) \div 10000
                  + (((3965 * temp) \div 10000) * Pow016(wind_speed)) \div 10000
           humidity_factor == 100 + (5000 - humidity) \div 200
           effective_chill == Mul(wind_chill, humidity_factor)
           cold_risk == IF effective_chill > 0 THEN 0
                        ELSE IF effective_chill > 0 - 1500
                        THEN Mul(0 - effective_chill, 333)
                        ELSE 5000 + ((0 - 1500) - effective_chill) * 2
       IN Clamp100(cold_risk)

\* PhysicsWeatherModel.calculate_physics_confidence: overall_confidence
calculate_physics_confidence(data, predictions) ==
  LET temp_max0 == Get(data, "temp_max", 0)
      humidity0 == Get(data, "humidity", 0)
      wind0 == Get(data, "wind_speed", 0)
      temp_realistic == 0 - 5000 <= temp_max0 /\ temp_max0 <= 6000
      humidity_valid == 0 <= humidity0 /\ humidity0 <= 10000
      wind_realistic == 0 <= wind0 /\ wind0 <= 10000
      data_quality == (Cardinality({i \in 1..3 :
                         <<temp_realistic, humidity_valid, wind_realistic>>[i]}) * 10000) \div 3
      temp_range_ok == Get(data, "temp_max", 2000) >= Get(data, "temp_min", 1000)
      prediction_consistency == \A r \in DOMAIN predictions :
                                  0 <= predictions[r] /\ predictions[r] <= 10000
      physics_validity == (Cardinality({i \in 1..2 :
                             <<temp_range_ok, prediction_consistency>>[i]}) * 10000) \div 2
  IN Mul(data_quality, 60) + Mul(physics_validity, 40)

\* PhysicsWeatherModel.get_physics_fallback
get_physics_fallback ==
  [predictions |-> Risks(3000, 2000, 3500, 2500, 4000),
   physics_confidence |-> [overall_confidence |-> 6000, uncertainty_level |-> "HIGH"]]

\* PhysicsWeatherModel.predict_weather_risks_physics.  `fault` is an error
\* raised inside the method's try block by something other than its data.
predict_weather_risks_physics(nasa_data, target_date, location_data, fault) ==
  LET temp == Get(nasa_data, "temp_max", 2000)
      temp_min == Get(nasa_data, "temp_min", 1000)
      humidity == Get(nasa_data, "humidity", 6000)
      wind_speed == Get(nasa_data, "wind_speed", 500)
      pressure == Get(nasa_data, "pressure", 101325)
      latitude == IF Truthy(location_data) THEN Get(location_data.items, "lat", 0) ELSE 0
      pressure_gradient == Max(100, Abs(101325 - pressure))
      temp_gradient == Abs(temp - temp_min) \div 1000
      risks == Risks(calculate_heat_stress_index(temp, humidity, wind_speed),
                     calculate_cold_risk(temp_min, wind_speed, humidity),
                     calculate_precipitation_potential(temp, humidity, pressure, wind_speed),
                     calculate_wind_risk(pressure_gradient, temp_gradient, latitude),
                     calculate_heat_stress_index(temp, humidity, Mul(wind_speed, 70)))
      raises == \/ fault
                \/ \E v \in {temp, temp_min, humidity, wind_speed, pressure, latitude} : ~IsNum(v)
                \/ pressure = 0
  IN IF raises THEN get_physics_fallback
     ELSE [predictions |-> risks,
           physics_confidence |->
             [overall_confidence |-> calculate_physics_confidence(nasa_data, risks)]]

\* ------------------------------------------------------------ neural model
\* shapes of the arrays of AdvancedNeuralWeatherModel._initialize_neural_weights
model_weights ==
  [conv1d_1 |-> <<64, 13>>, conv1d_2 |-> <<32, 64>>, conv1d_3 |-> <<16, 32>>,
   dense_1 |-> <<16, 8>>, output |-> <<8, 5>>,
   bias_1 |-> <<64>>, bias_2 |-> <<32>>, bias_3 |-> <<16>>,
   bias_dense |-> <<8>>, bias_output |-> <<5>>]

IsLeap(year) == year % 4 = 0 /\ (year % 100 # 0 \/ year % 400 = 0)
\* datetime.strptime(f"{year}-{target_date}", '%Y-%m-%d') raises
StrptimeYmdRaises(year, target_date) ==
  LET d1 == DashAt(target_date, 1)
      m == SubSeq(target_date, 1, d1 - 1)
      d == SubSeq(target_date, d1 + 1, Len(target_date))
      days == IF DigitsValue(m) = 2 /\ IsLeap(year) THEN 29 ELSE MonthDays[DigitsValue(m)]
  IN ~(/\ HasDash(target_date)
       /\ IsDigits(m) /\ Len(m) <= 2
       /\ IsDigits(d) /\ Len(d) <= 2
       /\ DigitsValue(m) \in 1..12
       /\ DigitsValue(d) \in 1..days)

\* AdvancedNeuralWeatherModel._engineer_advanced_features: whether it raises,
\* and the length of the feature array it returns
_engineer_advanced_features(weather_data, target_date, target_year, current_year) ==
  LET temp == Get(weather_data, "temp_max", 2000)
      humidity == Get(weather_data, "humidity", 6000)
      pressure == Get(weather_data, "pressure", 101325)
      wind_speed == Get(weather_data, "wind_speed", 500)
      year == IF target_year = None THEN current_year ELSE target_year
      date_raises == /\ StrptimeYmdRaises(year, target_date)
                     /\ StrptimeYmdRaises(current_year, target_date)
      raises == date_raises \/ \E v \in {temp, humidity, pressure, wind_speed} : ~IsNum(v)
  IN [raised |-> raises, value |-> 7 + 2 + 1 + 2 + 2 + 8 + 2]

\* AdvancedNeuralWeatherModel._simulate_conv1d on an input of x_len numbers:
\* output[i] = x[i] * weights[i % len(weights)] + bias[...] stores a row of
\* `weights` into one slot of `output`, which numpy refuses unless the row
\* has one element.  The value is the length of the output.
_simulate_conv1d(x_len, weights, bias) ==
  LET output_size == Min(weights[1], x_len)
  IN [raised |-> output_size > 0 /\ Len(weights) > 1 /\ weights[2] # 1,
      value |-> output_size]

\* AdvancedNeuralWeatherModel._predict_short_term_tcn: whether it raises
_predict_short_term_tcn(features_len) ==
  LET conv1 == _simulate_conv1d(features_len, model_weights.conv1d_1, model_weights.bias_1)
      conv2 == _simulate_conv1d(conv1.value, model_weights.conv1d_2, model_weights.bias_2)
      conv3 == _simulate_conv1d(conv2.value, model_weights.conv1d_3, model_weights.bias_3)
  IN [raised |-> conv1.raised \/ conv2.raised \/ conv3.raised, value |-> conv3.value]

\* ------------------------------------------------------------ innovation score
\* str.lower() on the letters A-Z
Lower(s) ==
  LET UpperCase ==
        <<"A", "B", "C", "D", "E", "F", "G", "H", "I", "J", "K", "L", "M", "N", "O", "P",
          "Q", "R", "S", "T", "U", "V", "W", "X", "Y", "Z">>
      LowerCase ==
        <<"a", "b", "c", "d", "e", "f", "g", "h", "i", "j", "k", "l", "m", "n", "o", "p",
          "q", "r", "s", "t", "u", "v", "w", "x", "y", "z">>
      LowerChar(c) ==
        IF \E i \in 1..Len(UpperCase) : UpperCase[i] = c
        THEN LowerCase[CHOOSE i \in 1..Len(UpperCase) : UpperCase[i] = c]
        ELSE c
  IN [i \in 1..Len(s) |-> LowerChar(s[i])]

\* `method in model_type` on strings
Contains(model_type, method) ==
  \E i \in 1..(Len(model_type) - Len(method) + 1) :
     SubSeq(model_type, i, i + Len(method) - 1) = method

\* the model_type strings of the three horizons and model_architecture
TemporalConvolutionalNetwork ==
  <<"T", "e", "m", "p", "o", "r", "a", "l", " ", "C", "o", "n", "v", "o", "l", "u",
    "t", "i", "o", "n", "a", "l", " ", "N", "e", "t", "w", "o", "r", "k">>
SpectralAnalysis ==
  <<"S", "p", "e", "c", "t", "r", "a", "l", " ", "A", "n", "a", "l", "y", "s", "i",
    "s", " ", "+", " ", "H", "a", "r", "m", "o", "n", "i", "c", " ", "D", "e", "c",
    "o", "m", "p", "o", "s", "i", "t", "i", "o", "n">>
ChaosTheory ==
  <<"C", "h", "a", "o", "s", " ", "T", "h", "e", "o", "r", "y", " ", "+", " ", "S",
    "t", "r", "a", "n", "g", "e", " ", "A", "t", "t", "r", "a", "c", "t", "o", "r",
    "s">>
model_architecture ==
  <<"T", "C", "N", " ", "+", " ", "A", "t", "t", "e", "n", "t", "i", "o", "n", " ",
    "+", " ", "C", "h", "a", "o", "s", " ", "+", " ", "S", "p", "e", "c", "t", "r",
    "a", "l">>

\* method_points of _calculate_innovation_score, in insertion order
method_points ==
  <<[method |-> <<"t", "c", "n">>, points |-> 2500],
    [method |-> <<"a", "t", "t", "e", "n", "t", "i", "o", "n">>, points |-> 2000],
    [method |-> <<"s", "p", "e", "c", "t", "r", "a", "l">>, points |-> 2000],
    [method |-> <<"c", "h", "a", "o", "s">>, points |-> 3000],
    [method |-> <<"m", "e", "t", "a", "_", "e", "n", "s", "e", "m", "b", "l", "e">>,
     points |-> 1500]>>

HorizonOrder == <<"short_term", "seasonal", "climate">>

\* the score without the cap of line 762
_calculate_innovation_score_Uncapped(predictions) ==
  LET horizons == SelectSeq(HorizonOrder, LAMBDA h : h \in DOMAIN predictions)
      points(h) ==
        LET model_type == Lower(Get(predictions[h], "model_type", <<>>))
        IN SumSeq([i \in 1..Len(method_points) |->
                     IF Contains(model_type, method_points[i].method)
                     THEN method_points[i].points ELSE 0])
  IN SumSeq([i \in 1..Len(horizons) |-> points(horizons[i])]) + Len(horizons) * 500

\* AdvancedNeuralWeatherModel._calculate_innovation_score; predictions maps
\* horizon names to dicts
_calculate_innovation_score(predictions) ==
  LET horizons == SelectSeq(HorizonOrder, LAMBDA h : h \in DOMAIN predictions)
      points(h) ==
        LET model_type == Lower(Get(predictions[h], "model_type", <<>>))
        IN SumSeq([i \in 1..Len(method_points) |->
                     IF Contains(model_type, method_points[i].method)
                     THEN method_points[i].points ELSE 0])
      innovation_score ==
        SumSeq([i \in 1..Len(horizons) |-> points(horizons[i])]) + Len(horizons) * 500
  IN Min(10000, innovation_score)

\* a fallback that carries scores of its own
_get_neural_fallback_WithScores ==
  [predictions |->
     [short_term |-> [predictions |-> Risks(3500, 2000, 4000, 2500, 4500),
                      confidence_metrics |-> [overall_confidence |-> 6000]]],
   meta_ensemble |-> [predictions |-> Risks(3500, 2000, 4000, 2500, 4500),
                      meta_confidence |-> [overall_confidence |-> 5000,
                                           temporal_consistency |-> 8000]],
   innovation_score |-> 6000,
   methodology |-> "Neural Fallback Mode"]

\* AdvancedNeuralWeatherModel._get_neural_fallback
_get_neural_fallback ==
  [predictions |->
     [short_term |-> [predictions |-> Risks(3500, 2000, 4000, 2500, 4500),
                      confidence_metrics |-> [overall_confidence |-> 6000]]],
   meta_ensemble |-> [predictions |-> Risks(3500, 2000, 4000, 2500, 4500),
                      meta_confidence |-> [overall_confidence |-> 5000]],
   methodology |-> "Neural Fallback Mode"]

\* the penalty applied from a difference of 50 on
_calculate_temporal_consistency_From50(predictions) ==
  IF "short_term" \in DOMAIN predictions /\ "climate" \in DOMAIN predictions
  THEN LET short_pred == Get(predictions["short_term"], "predictions", <<>>)
           climate_pred == Get(predictions["climate"], "predictions", <<>>)
           penalised == {category \in DOMAIN short_pred \cap DOMAIN climate_pred :
                           Abs(short_pred[category] - climate_pred[category]) >= 5000}
       IN Clamp100(8000 - 1000 * Cardinality(penalised))
  ELSE 8000

\* AdvancedNeuralWeatherModel._calculate_temporal_consistency
_calculate_temporal_consistency(predictions) ==
  IF "short_term" \in DOMAIN predictions /\ "climate" \in DOMAIN predictions
  THEN LET short_pred == Get(predictions["short_term"], "predictions", <<>>)
           climate_pred == Get(predictions["climate"], "predictions", <<>>)
           penalised == {category \in DOMAIN short_pred \cap DOMAIN climate_pred :
                           Abs(short_pred[category] - climate_pred[category]) > 5000}
       IN Clamp100(8000 - 1000 * Cardinality(penalised))
  ELSE 8000

\* float('nan'), what 0.0 / 0.0 gives on numpy arrays
NaN == 0 - 888888

\* AdvancedNeuralWeatherModel._meta_ensemble_prediction; predictions maps
\* horizon names to dicts.  The two lists of a category are appended to
\* together, so their lengths are equal and the confidence-weighted branch
\* (lines 663-665) is the one taken.  ensemble_agreement of meta_confidence
\* is not computed here.
_meta_ensemble_prediction(predictions) ==
  IF DOMAIN predictions = {}
  THEN _get_neural_fallback.meta_ensemble
  ELSE LET usable(risk_category) ==
             SelectSeq(HorizonOrder,
                       LAMBDA h : /\ h \in DOMAIN predictions
                                  /\ "predictions" \in DOMAIN predictions[h]
                                  /\ risk_category \in DOMAIN predictions[h].predictions)
           category_predictions(risk_category) ==
             [i \in 1..Len(usable(risk_category)) |->
                predictions[usable(risk_category)[i]].predictions[risk_category]]
           category_confidences(risk_category) ==
             [i \in 1..Len(usable(risk_category)) |->
                Get(Get(predictions[usable(risk_category)[i]], "confidence_metrics", <<>>),
                    "overall_confidence", 5000)]
           ensemble_prediction(risk_category) ==
             LET p == category_predictions(risk_category)
                 c == category_confidences(risk_category)
             IN IF Len(p) = 0 THEN 5000
                ELSE IF SumSeq(c) = 0 THEN NaN
                ELSE SumSeq([i \in 1..Len(p) |-> p[i] * c[i]]) \div SumSeq(c)
           ensemble_confidence(risk_category) ==
             IF Len(category_predictions(risk_category)) = 0 THEN 3000
             ELSE Mean(category_confidences(risk_category))
           overall_confidence ==
             Mean([i \in 1..Len(risk_types) |-> ensemble_confidence(risk_types[i])])
       IN [predictions |-> [r \in RiskSet |-> ensemble_prediction(r)],
           individual_confidences |-> [r \in RiskSet |-> ensemble_confidence(r)],
           meta_confidence |->
             [overall_confidence |-> overall_confidence,
              temporal_consistency |-> _calculate_temporal_consistency(predictions),
              uncertainty_level |-> IF overall_confidence > 7500 THEN "LOW"
                                    ELSE IF overall_confidence > 5000 THEN "MODERATE"
                                    ELSE "HIGH"]]

\* AdvancedNeuralWeatherModel.predict_multi_temporal with the horizons the
\* coordinator passes, ['short_term', 'seasonal', 'climate'].  `fault` is an
\* error raised inside the try block by something other than the data.  The
\* seasonal and climate horizons and the meta-ensemble run only after
\* _predict_short_term_tcn has returned.
predict_multi_temporal(weather_data, target_date, target_year, current_year, fault) ==
  LET engineered_features ==
        _engineer_advanced_features(weather_data, target_date, target_year, current_year)
      short_term == _predict_short_term_tcn(engineered_features.value)
  IN IF fault \/ engineered_features.raised \/ short_term.raised
     THEN _get_neural_fallback
     ELSE [predictions |-> [h \in {"short_term", "seasonal", "climate"} |-> Opaque(7)],
           meta_ensemble |-> _get_neural_fallback.meta_ensemble,
           methodology |-> "Advanced Neural Multi-Temporal Ensemble",
           features_used |-> engineered_features.value,
           innovation_score |-> 0]

\* ------------------------------------------------------------ regression model
\* np.log1p(precip) in ten-thousandths
Log1p(precip) ==
  CASE precip = 0 -> 0
    [] precip = 10 -> 953
    [] precip = 50 -> 4055
    [] precip = 300 -> 13863
    [] precip = 500 -> 17918
    [] precip = 1000 -> 23979
    [] precip = 1300 -> 26391

\* what train_models leaves in self.models: a fitted regressor answers with
\* the label it was fitted to (calculate_ml_labels) plus a fit error, and
\* reports an average importance of its first three features; the source
\* does not fix either, so training picks one element of Regressors
Regressors ==
  {[fitted |-> TRUE, rf_error |-> 0, gb_error |-> 0, importance |-> 1500],
   [fitted |-> TRUE, rf_error |-> 0 - 400, gb_error |-> 900, importance |-> 500]}
\* self.models = {} of WeatherRiskMLModel.__init__
NoRegressors == [fitted |-> FALSE, rf_error |-> 0, gb_error |-> 0, importance |-> 0]

\* the empirical heat-index regression of engineer_features
HeatIndexRegression(T, RH) ==
  LET TRH == Mul(T, RH)
      TT == Mul(T, T)
      RR == Mul(RH, RH)
      TTRH == Mul(TT, RH)
      TRR == ((TRH \div 10) * RH) \div 10
      TTRR == ((TTRH \div 100) * RH) \div 100
  IN 0 - 4238 + (T * 20490) \div 10000 + (RH * 10143) \div 1000
     - (TRH * 2248) \div 10000 - (TT * 684) \div 100000 - (RR * 548) \div 10000
     + ((TTRH \div 10) * 123) \div 10000 + ((TRR \div 10) * 85) \div 10000
     - ((TTRR \div 10) * 199) \div 100000

\* WeatherRiskMLModel.engineer_features; current_year is datetime.now().year
engineer_features(data, target_year, current_year) ==
  LET temp_max == Get(data, "temp_max", 0)
      temp_min == Get(data, "temp_min", 0)
      wind_speed == Get(data, "wind_speed", 0)
      humidity == Get(data, "humidity", 5000)
      year == IF target_year = None THEN current_year ELSE target_year
      raises == \/ \E v \in {temp_max, temp_min, humidity} : ~IsNum(v)
                \/ (temp_max <= 1000 /\ ~IsNum(wind_speed))
  IN [raised |-> raises,
      value |->
        IF raises THEN <<>> ELSE
        [temp_max |-> temp_max,
         temp_min |-> temp_min,
         precipitation |-> Get(data, "precipitation", 0),
         wind_speed |-> wind_speed,
         humidity |-> humidity,
         dew_point |-> Get(data, "dew_point", 0),
         lat |-> Get(data, "lat", 0),
         lon |-> Get(data, "lon", 0),
         month |-> Get(data, "month", 1),
         target_year |-> year,
         year_offset |-> year - current_year,
         is_historical |-> IF year < current_year THEN 1 ELSE 0,
         is_forecast |-> IF year > current_year THEN 1 ELSE 0,
         climate_era |-> IF year >= 2020 THEN (year - 2020) * 2 ELSE 0 - 100,
         temp_range |-> temp_max - temp_min,
         heat_index |-> IF temp_max >= 2700 /\ humidity >= 4000
                        THEN HeatIndexRegression(temp_max, humidity)
                        ELSE temp_max,
         wind_chill |-> IF temp_max <= 1000 /\ wind_speed > 480
                        THEN 1312 + (6215 * temp_max) \div 10000
                             - (1137 * Pow016(wind_speed)) \div 10000
                             + (((3965 * temp_max) \div 10000) * Pow016(wind_speed)) \div 10000
                        ELSE temp_max,
         pressure_tendency |-> 0 - (temp_max - 1500) \div 10 - (humidity - 5000) \div 20]]

feature_names ==
  <<"temp_max", "temp_min", "precipitation", "wind_speed", "humidity", "dew_point",
    "month", "lat", "lon", "temp_range", "heat_index", "wind_chill", "pressure_tendency">>

\* WeatherRiskMLModel.calculate_ml_labels; month is a whole number
calculate_ml_labels(features) ==
  LET heat_stress == Mul(features.temp_max, 60) + Mul(features.heat_index, 30)
                     - Mul(Abs(features.lat), 10)
      cold_stress == Mul(features.wind_chill, 70) + Mul(Abs(features.lat), 20)
                     + (600 - Abs(features.month * 100 - 650)) * 2
      precip_potential == Mul(features.humidity, 40) + (features.precipitation * 3) \div 1000
                          + Abs(features.pressure_tendency) * 10
                          + Sin6(features.month) \div 5
      wind_potential == features.wind_speed * 8 + Abs(features.pressure_tendency) * 15
                        + (IF Abs(features.lat) > 4000 THEN 2000 ELSE 0)
      discomfort == (features.heat_index - 2400) * 3 + (features.humidity - 4000) \div 2
                    - features.wind_speed * 2
  IN Risks(Clamp100((heat_stress - 2500) * 3),
           Clamp100((500 - cold_stress) * 4),
           Clamp100(precip_potential),
           Clamp100(wind_potential),
           Clamp100(discomfort))

\* WeatherRiskMLModel.calculate_ml_confidence: overall_confidence;
\* avg_importance is a percentage in hundredths
calculate_ml_confidence(features, avg_importance) ==
  LET completeness ==
        (Cardinality({k \in DOMAIN features : features[k] # 0}) * 10000)
          \div Cardinality(DOMAIN features)
      seasonal_confidence == IF features.month \in {6, 7, 8, 12, 1, 2} THEN 9000 ELSE 7000
      overall_confidence ==
        (completeness * 40 + avg_importance * 40 + seasonal_confidence * 20) \div 100
  IN Min(10000, overall_confidence)

\* a fallback that leaves out the heat_discomfort category
get_fallback_predictions_FourCategories ==
  [predictions |-> [r \in RiskSet \ {"heat_discomfort"} |->
                      Risks(2500, 1500, 3000, 2000, 3500)[r]],
   model_confidence |-> [overall_confidence |-> 5000, uncertainty_level |-> "HIGH"]]

\* WeatherRiskMLModel.get_fallback_predictions
get_fallback_predictions ==
  [predictions |-> Risks(2500, 1500, 3000, 2000, 3500),
   model_confidence |-> [overall_confidence |-> 5000, uncertainty_level |-> "HIGH"]]

\* WeatherRiskMLModel._calculate_statistical_confidence
_calculate_statistical_confidence(nasa_data) ==
  LET available_params == Cardinality({k \in DOMAIN nasa_data :
                                         nasa_data[k] # None /\ nasa_data[k] # 0})
      total_params == Cardinality(DOMAIN nasa_data)
      completeness == (available_params * 10000) \div total_params
      temp_max0 == Get(nasa_data, "temp_max", 0)
      humidity0 == Get(nasa_data, "humidity", 5000)
      wind0 == Get(nasa_data, "wind_speed", 500)
      temp_ok == 0 - 5000 <= temp_max0 /\ temp_max0 <= 6000
      humidity_ok == 0 <= humidity0 /\ humidity0 <= 10000
      wind_ok == 0 <= wind0 /\ wind0 <= 10000
      validity == (Cardinality({i \in 1..3 : <<temp_ok, humidity_ok, wind_ok>>[i]}) * 10000)
                    \div 3
  IN [raised |-> total_params = 0 \/ \E v \in {temp_max0, humidity0, wind0} : ~IsNum(v),
      value |-> Mul(completeness, 60) + Mul(validity, 40)]

\* WeatherRiskMLModel._statistical_ml_approximation (precip >= 0)
WeatherRiskMLModel_statistical_ml_approximation(nasa_data, target_date) ==
  LET parsed == Strptime(target_date)
      month == parsed.value
      temp == Get(nasa_data, "temp_max", 2000)
      temp_min == Get(nasa_data, "temp_min", 1000)
      precip == Get(nasa_data, "precipitation", 0)
      wind == Get(nasa_data, "wind_speed", 500)
      humidity == Get(nasa_data, "humidity", 6000)
      lat == Get(nasa_data, "lat", 0)
      heat_base == Mul(temp - 2000, 250)
      season_factor == IF month \in {6, 7, 8} THEN 120 ELSE 80
      lat_factor == 100 - Abs(lat) \div 100
      cold_base == (1500 - temp_min) * 3
      winter_factor == IF month \in {12, 1, 2} THEN 130 ELSE 70
      precip_log == (Log1p(precip) * 8) \div 100
      monsoon_factor == IF month \in {6, 7, 8, 9} THEN 150 ELSE 100
      humidity_factor == humidity \div 100
      wind_base == wind * 12
      storm_season == IF month \in {3, 4, 5, 9, 10, 11} THEN 120 ELSE 100
      heat_index == temp + Mul(humidity - 4000, 20)
      discomfort == (heat_index - 2400) * 4
      confidence == _calculate_statistical_confidence(nasa_data)
      raises == \/ parsed.raised
                \/ \E v \in {temp, temp_min, precip, wind, humidity, lat} : ~IsNum(v)
                \/ confidence.raised
  IN IF raises THEN [raised |-> TRUE, value |-> <<>>]
     ELSE [raised |-> FALSE,
           value |->
             [predictions |->
                Risks(Clamp100(Mul(Mul(heat_base, season_factor), lat_factor)),
                      Clamp100(Mul(cold_base, winter_factor)),
                      Clamp100(Mul(Mul(precip_log, monsoon_factor), humidity_factor)),
                      Clamp100(Mul(wind_base, storm_season)),
                      Clamp100(discomfort)),
              model_confidence |-> [overall_confidence |-> confidence.value],
              method |-> "Statistical ML Approximation"]]

\* without the libraries the call gives up and answers with the fixed values
predict_weather_risks_FixedWithoutLibraries(nasa_data, target_date, target_year, current_year, ml_available, regressors, fault) ==
  get_fallback_predictions

\* the body of predict_weather_risks after the training check: the try block
\* and its handler.  ml_available is ML_AVAILABLE, regressors is self.models,
\* `fault` an error raised inside the try block by something other than the data.
predict_weather_risks(nasa_data, target_date, target_year, current_year, ml_available, regressors, fault) ==
  LET approximation == WeatherRiskMLModel_statistical_ml_approximation(nasa_data, target_date)
      parsed == Strptime(target_date)
      engineered == engineer_features(
                      [k \in DOMAIN nasa_data \cup {"month", "lat", "lon"} |->
                         IF k = "month" THEN parsed.value
                         ELSE IF k \in {"lat", "lon"} THEN Get(nasa_data, k, 0)
                         ELSE nasa_data[k]],
                      target_year, current_year)
      features == engineered.value
      \* scaler.transform refuses a feature vector holding a non-number
      vector_ok == \A i \in 1..Len(feature_names) : IsNum(features[feature_names[i]])
      labels == calculate_ml_labels(features)
      predictions ==
        [r \in RiskSet |->
           LET rf_pred == Clamp100(labels[r] + regressors.rf_error)
               gb_pred == labels[r] + regressors.gb_error
           IN Max(0, Min(10000, (60 * rf_pred + 40 * gb_pred) \div 100))]
  IN IF fault THEN get_fallback_predictions
     ELSE IF ~ml_available
     THEN (IF approximation.raised THEN get_fallback_predictions ELSE approximation.value)
     ELSE IF parsed.raised \/ engineered.raised \/ ~vector_ok \/ ~regressors.fitted
     THEN get_fallback_predictions
     ELSE [predictions |-> predictions,
           model_confidence |->
             [overall_confidence |-> calculate_ml_confidence(features, regressors.importance)],
           engineered_features |-> features]

\* ------------------------------------------------------------ state
VARIABLES
  ml_weather_model,      \* TRUE unless the import of ml_weather_predictor failed (None)
  ML_AVAILABLE,          \* the regression libraries were importable
  weights,               \* EnsembleWeatherPredictor.weights
  is_trained,            \* WeatherRiskMLModel.is_trained
  ml_models,             \* WeatherRiskMLModel.models and scalers
  hash_seed,             \* hash(str(None)) % 1000, fixed when the process starts
  current_year,          \* datetime.now().year
  ticks,                 \* how often the year has changed
  pc,                    \* position of predict_ensemble_weather_risks
  nasa_data, target_date, location_data, target_year,      \* its arguments
  enhanced_data, model_outputs, ensemble_predictions, ensemble_confidence,
  temporal_analysis, innovation_metrics,                   \* its locals
  adaptive_weights,      \* the local `weights` of _combine_advanced_predictions
  exc,                   \* the exception being propagated, "" if none
  result,                \* what the call returned
  faults,                \* per stage of the current call: the fault injected into it,
                         \* "raised" if it raised by itself, else "none"
  escaped,               \* entry points an internal fault got out of
  last                   \* arguments and result of the preceding fault-free call

config == <<ml_weather_model, ML_AVAILABLE, weights>>
process == <<is_trained, ml_models, hash_seed, current_year, ticks>>
args == <<nasa_data, target_date, location_data, target_year>>
locals == <<enhanced_data, model_outputs, ensemble_predictions, ensemble_confidence,
            temporal_analysis, innovation_metrics, adaptive_weights>>
ghosts == <<faults, escaped, last>>
vars == <<config, process, args, locals, pc, exc, result, ghosts>>

Stages == {"aggregate", "neural", "statistical", "ml", "physics", "fusion"}
NoFaults == [s \in Stages |-> "none"]
NoLast == [set |-> FALSE, args |-> <<>>, result |-> <<>>]

\* the absent configuration keeping the full weights of the other three models
EnsembleWeatherPredictor_init_Unadjusted(ml_present) ==
  IF ml_present
  THEN [ml_model |-> 25, physics_model |-> 25, statistical_model |-> 15, neural_model |-> 35]
  ELSE [ml_model |-> 0, physics_model |-> 25, statistical_model |-> 15, neural_model |-> 35]

\* EnsembleWeatherPredictor.__init__: the base weights
EnsembleWeatherPredictor_init(ml_present) ==
  IF ml_present
  THEN [ml_model |-> 25, physics_model |-> 25, statistical_model |-> 15, neural_model |-> 35]
  ELSE [ml_model |-> 0, physics_model |-> 30, statistical_model |-> 25, neural_model |-> 45]

Init ==
  /\ ml_weather_model \in BOOLEAN
  /\ ML_AVAILABLE \in (IF ml_weather_model THEN BOOLEAN ELSE {FALSE})
  /\ weights = EnsembleWeatherPredictor_init(ml_weather_model)
  /\ is_trained = FALSE
  /\ ml_models = NoRegressors
  /\ hash_seed \in HashSeeds
  /\ current_year = StartYear
  /\ ticks = 0
  /\ pc = "idle"
  /\ nasa_data = PyNone /\ target_date = <<>> /\ location_data = PyNone /\ target_year = None
  /\ enhanced_data = <<>> /\ model_outputs = <<>> /\ ensemble_predictions = <<>>
  /\ ensemble_confidence = <<>> /\ temporal_analysis = <<>> /\ innovation_metrics = <<>>
  /\ adaptive_weights = <<>>
  /\ exc = ""
  /\ result = <<>>
  /\ faults = NoFaults
  /\ escaped = {}
  /\ last = NoLast

\* the calendar year changes between two requests
Tick ==
  /\ pc = "idle"
  /\ ticks < MaxTicks
  /\ current_year' = current_year + 1
  /\ ticks' = ticks + 1
  /\ UNCHANGED <<config, is_trained, ml_models, hash_seed, args, locals, pc, exc, result, ghosts>>

\* a caller invokes predict_ensemble_weather_risks(nasa_data, target_date,
\* location_data, target_year)
Call ==
  /\ pc = "idle"
  /\ \E o \in 1..NumObs, d \in 1..NumDates, l \in 1..NumLocs, y \in 1..NumYears :
       /\ nasa_data' = Observations[o]
       /\ target_date' = Dates[d]
       /\ location_data' = Locations[l]
       /\ target_year' = Years[y]
       /\ last' = IF last.set /\ last.args = <<Observations[o], Dates[d], Locations[l], Years[y]>>
                  THEN last ELSE NoLast
  /\ pc' = "step1"
  /\ result' = <<>>
  /\ faults' = NoFaults
  /\ escaped' = {}
  /\ UNCHANGED <<config, process, locals, exc>>

\* what the four fetches of multi_api_model can hand back: the realtime dict
\* has the one key 'openweather' or 'synthetic'; the contents vary per call
Fetches == {[key |-> "openweather", tag |-> 1], [key |-> "synthetic", tag |-> 2]}

\* {**nasa_monthly, **realtime_data, 'forecast': ..., 'seasonal': ..., 'climate': ...}
Merge(nasa_monthly, fetched) ==
  [k \in DOMAIN nasa_monthly \cup {fetched.key, "forecast", "seasonal", "climate"} |->
     IF k = fetched.key THEN Opaque(fetched.tag)
     ELSE IF k = "forecast" THEN Opaque(10 + fetched.tag)
     ELSE IF k = "seasonal" THEN Opaque(20 + fetched.tag)
     ELSE IF k = "climate" THEN Opaque(30 + fetched.tag)
     ELSE nasa_monthly[k]]

\* Step 1 (lines 73-98): aggregate the multi-API data
Step1Aggregate ==
  /\ pc = "step1"
  /\ \E fault \in (IF Truthy(location_data) THEN BOOLEAN ELSE {FALSE}),
        fetched \in (IF Truthy(location_data) THEN Fetches
                     ELSE {[key |-> "synthetic", tag |-> 2]}) :
       LET month == ParseMonth(target_date)
           nasa_monthly == _extract_month_specific_nasa_data(nasa_data, month.value)
           lat_lon_ok == ~Truthy(location_data)
                         \/ (/\ IsNum(Get(location_data.items, "lat", 0))
                             /\ IsNum(Get(location_data.items, "lon", 0)))
           raised == IF fault THEN "RuntimeError"
                     ELSE IF ~lat_lon_ok THEN "TypeError"
                     ELSE IF month.raised THEN "ValueError"
                     ELSE IF nasa_monthly.raised THEN "AttributeError"
                     ELSE ""
       IN /\ faults' = [faults EXCEPT !["aggregate"] = IF fault THEN "fault"
                                                        ELSE IF raised # "" THEN "raised"
                                                        ELSE "none"]
          /\ IF raised # ""
             THEN /\ exc' = raised
                  /\ pc' = "except"
                  /\ UNCHANGED enhanced_data
             ELSE /\ enhanced_data' = IF Truthy(location_data)
                                      THEN Merge(nasa_monthly.value, fetched)
                                      ELSE nasa_monthly.value
                  /\ pc' = "step2"
                  /\ UNCHANGED exc
  /\ UNCHANGED <<config, process, args, model_outputs, ensemble_predictions,
                 ensemble_confidence, temporal_analysis, innovation_metrics,
                 adaptive_weights, result, escaped, last>>

\* Step 2 (lines 100-116): the neural model, or its substitute when the
\* invocation raises
Step2Neural ==
  /\ pc = "step2"
  /\ \E f \in {"none", "internal", "forced"} :
       LET neural_result == predict_multi_temporal(enhanced_data, target_date, target_year,
                                                   current_year, f = "internal")
           fallback == _get_fallback_prediction(7000, PyNone, <<"0", "7", "-", "1", "5">>, hash_seed)
       IN /\ faults' = [faults EXCEPT !["neural"] = f]
          /\ IF f = "forced"
             THEN /\ IF fallback.raised
                     THEN /\ exc' = "TypeError"
                          /\ pc' = "except"
                          /\ UNCHANGED model_outputs
                     ELSE /\ model_outputs' = model_outputs @@ ("neural" :> fallback.value)
                          /\ pc' = "step3"
                          /\ UNCHANGED exc
             ELSE /\ model_outputs' = model_outputs @@
                       ("neural" :>
                          [predictions |-> neural_result.meta_ensemble.predictions,
                           confidence |->
                             neural_result.meta_ensemble.meta_confidence.overall_confidence,
                           innovation_score |-> Get(neural_result, "innovation_score", 8500),
                           detailed_results |-> neural_result])
                  /\ pc' = "step3"
                  /\ UNCHANGED exc
  /\ UNCHANGED <<config, process, args, enhanced_data,
                 ensemble_predictions, ensemble_confidence, temporal_analysis,
                 innovation_metrics, adaptive_weights, result, escaped, last>>

\* Step 3 (lines 118-128): the statistical model, on nasa_data
Step3Statistical ==
  /\ pc = "step3"
  /\ \E f \in {"none", "forced"} :
       LET stat_result == _calculate_location_specific_statistics(nasa_data.items, target_date)
           fallback == _get_fallback_prediction(6000, nasa_data, target_date, hash_seed)
       IN /\ faults' = [faults EXCEPT !["statistical"] =
                          IF stat_result.raised THEN "raised" ELSE f]
          /\ IF f = "forced" \/ stat_result.raised
             THEN /\ IF fallback.raised
                     THEN /\ exc' = "TypeError"
                          /\ pc' = "except"
                          /\ UNCHANGED model_outputs
                     ELSE /\ model_outputs' = model_outputs @@ ("statistical" :> fallback.value)
                          /\ pc' = "step4"
                          /\ UNCHANGED exc
             ELSE /\ model_outputs' = model_outputs @@
                       ("statistical" :> [predictions |-> stat_result.value.predictions,
                                          confidence |-> stat_result.value.confidence])
                  /\ pc' = "step4"
                  /\ UNCHANGED exc
  /\ UNCHANGED <<config, process, args, enhanced_data,
                 ensemble_predictions, ensemble_confidence, temporal_analysis,
                 innovation_metrics, adaptive_weights, result, escaped, last>>

\* Step 4 (lines 130-144): the regression model if there is one, else the
\* coordinator's approximation.  A "training" fault is raised by train_models,
\* which predict_weather_risks calls before its try block (lines 238-240).
Step4ML ==
  /\ pc = "step4"
  /\ \E f \in (IF ml_weather_model
               THEN {"none", "internal", "forced"}
                    \cup (IF ~is_trained /\ ML_AVAILABLE THEN {"training"} ELSE {})
               ELSE {"none", "fault"}),
        fitted \in (IF ML_AVAILABLE /\ ~is_trained THEN Regressors ELSE {ml_models}) :
       LET data == PyDict(enhanced_data)
           ml_result == predict_weather_risks(enhanced_data, target_date, target_year,
                                              current_year, ML_AVAILABLE, fitted,
                                              f = "internal")
           fallback == _get_fallback_prediction(6000, data, target_date, hash_seed)
           approximation == _statistical_ml_approximation(enhanced_data, target_date)
       IN /\ faults' = [faults EXCEPT !["ml"] =
                          IF ~ml_weather_model /\ f = "none" /\ approximation.raised
                          THEN "raised" ELSE f]
          /\ escaped' = IF f = "training" THEN escaped \cup {"ml"} ELSE escaped
          /\ IF ml_weather_model
             THEN IF f \in {"forced", "training"}
                  THEN /\ IF fallback.raised
                          THEN /\ exc' = "TypeError"
                               /\ pc' = "except"
                               /\ UNCHANGED model_outputs
                          ELSE /\ model_outputs' = model_outputs @@ ("ml" :> fallback.value)
                               /\ pc' = "step5"
                               /\ UNCHANGED exc
                       /\ UNCHANGED <<is_trained, ml_models>>
                  ELSE /\ is_trained' = TRUE
                       /\ ml_models' = fitted
                       /\ model_outputs' = model_outputs @@
                            ("ml" :> [predictions |-> ml_result.predictions,
                                      confidence |->
                                        ml_result.model_confidence.overall_confidence])
                       /\ pc' = "step5"
                       /\ UNCHANGED exc
             ELSE /\ IF f = "fault" \/ approximation.raised
                     THEN /\ exc' = IF f = "fault" THEN "RuntimeError" ELSE "TypeError"
                          /\ pc' = "except"
                          /\ UNCHANGED model_outputs
                     ELSE /\ model_outputs' = model_outputs @@ ("ml" :> approximation.value)
                          /\ pc' = "step5"
                          /\ UNCHANGED exc
                  /\ UNCHANGED <<is_trained, ml_models>>
  /\ UNCHANGED <<config, hash_seed, current_year, ticks, args, enhanced_data,
                 ensemble_predictions,
                 ensemble_confidence, temporal_analysis, innovation_metrics,
                 adaptive_weights, result, last>>

\* Step 5 (lines 146-158): the physics model
Step5Physics ==
  /\ pc = "step5"
  /\ \E f \in {"none", "internal", "forced"} :
       LET data == PyDict(enhanced_data)
           physics_result == predict_weather_risks_physics(enhanced_data, target_date,
                                                           location_data, f = "internal")
           fallback == _get_fallback_prediction(6500, data, target_date, hash_seed)
       IN /\ faults' = [faults EXCEPT !["physics"] = f]
          /\ IF f = "forced"
             THEN /\ IF fallback.raised
                     THEN /\ exc' = "TypeError"
                          /\ pc' = "except"
                          /\ UNCHANGED model_outputs
                     ELSE /\ model_outputs' = model_outputs @@ ("physics" :> fallback.value)
                          /\ pc' = "step6"
                          /\ UNCHANGED exc
             ELSE /\ model_outputs' = model_outputs @@
                       ("physics" :>
                          [predictions |-> physics_result.predictions,
                           confidence |-> physics_result.physics_confidence.overall_confidence])
                  /\ pc' = "step6"
                  /\ UNCHANGED exc
  /\ UNCHANGED <<config, process, args, enhanced_data,
                 ensemble_predictions, ensemble_confidence, temporal_analysis,
                 innovation_metrics, adaptive_weights, result, escaped, last>>

\* an error inside one of the fusion steps unwinds to the handler of line
\* 184, which reads none of the locals the fusion steps have set
RaiseInFusion ==
  /\ faults' = [faults EXCEPT !["fusion"] = "fault"]
  /\ exc' = "RuntimeError"
  /\ pc' = "except"
  /\ ensemble_predictions' = <<>> /\ adaptive_weights' = <<>> /\ ensemble_confidence' = <<>>
  /\ temporal_analysis' = <<>> /\ innovation_metrics' = <<>>
  /\ UNCHANGED result

\* Step 6, first half (line 162): fuse the model outputs
Step6Combine ==
  /\ pc = "step6"
  /\ \E fault \in BOOLEAN :
       LET fused == _combine_advanced_predictions(model_outputs, weights)
       IN IF fault
          THEN RaiseInFusion
          ELSE /\ ensemble_predictions' = fused.combined
               /\ adaptive_weights' = fused.weights
               /\ pc' = "step6b"
               /\ UNCHANGED <<faults, exc, ensemble_confidence, temporal_analysis,
                              innovation_metrics, result>>
  /\ UNCHANGED <<config, process, args, enhanced_data, model_outputs, escaped, last>>

\* Step 6, second half (line 163): the confidence of the ensemble
Step6Confidence ==
  /\ pc = "step6b"
  /\ \E fault \in BOOLEAN :
       IF fault
       THEN RaiseInFusion
       ELSE /\ ensemble_confidence' = _calculate_advanced_ensemble_confidence(model_outputs)
            /\ pc' = "step7"
            /\ UNCHANGED <<faults, exc, ensemble_predictions, adaptive_weights,
                           temporal_analysis, innovation_metrics, result>>
  /\ UNCHANGED <<config, process, args, enhanced_data, model_outputs, escaped, last>>

\* Step 7 (line 166): multi-horizon analysis
Step7Temporal ==
  /\ pc = "step7"
  /\ \E fault \in BOOLEAN :
       IF fault
       THEN RaiseInFusion
       ELSE /\ temporal_analysis' = _analyze_temporal_consistency(model_outputs)
            /\ pc' = "step8"
            /\ UNCHANGED <<faults, exc, ensemble_predictions, adaptive_weights,
                           ensemble_confidence, innovation_metrics, result>>
  /\ UNCHANGED <<config, process, args, enhanced_data, model_outputs, escaped, last>>

\* Step 8 (line 169): innovation metrics
Step8Innovation ==
  /\ pc = "step8"
  /\ \E fault \in BOOLEAN :
       IF fault
       THEN RaiseInFusion
       ELSE /\ innovation_metrics' = _calculate_innovation_metrics(model_outputs)
            /\ pc' = "return"
            /\ UNCHANGED <<faults, exc, ensemble_predictions, adaptive_weights,
                           ensemble_confidence, temporal_analysis, result>>
  /\ UNCHANGED <<config, process, args, enhanced_data, model_outputs, escaped, last>>

\* lines 171-182: build the summary and return the result
Return ==
  /\ pc = "return"
  /\ \E fault \in BOOLEAN :
       IF fault
       THEN RaiseInFusion
       ELSE /\ result' =
                 [probabilities |-> ensemble_predictions,
                  accuracy_metrics |-> ensemble_confidence,
                  model_breakdown |-> model_outputs,
                  temporal_analysis |-> temporal_analysis,
                  innovation_metrics |-> innovation_metrics,
                  ensemble_method |->
                    "Advanced Multi-Temporal Neural + Physics + ML + Statistical",
                  prediction_horizons |->
                    <<"Real-time", "Short-term (1-14 days)", "Seasonal (1-12 months)",
                      "Climate (1-2 years)">>,
                  summary |-> _generate_advanced_summary(ensemble_predictions,
                                ensemble_confidence, innovation_metrics, target_date)]
            /\ pc' = "done"
            /\ UNCHANGED <<faults, exc, ensemble_predictions, adaptive_weights,
                           ensemble_confidence, temporal_analysis, innovation_metrics>>
  /\ UNCHANGED <<config, process, args, enhanced_data, model_outputs, escaped, last>>

\* a handler written as `except ValueError`
Catches_OnlyValueError(kind) == kind = "ValueError"

\* the classes `except Exception` takes
Catches(kind) ==
  kind \in {"TypeError", "ValueError", "AttributeError", "KeyError", "ZeroDivisionError",
            "RuntimeError"}

\* lines 184-186: the handler around the whole body
ExceptHandler ==
  /\ pc = "except"
  /\ IF Catches(exc)
     THEN /\ result' = _get_ensemble_fallback
          /\ pc' = "done"
          /\ exc' = ""
     ELSE /\ pc' = "raised"
          /\ UNCHANGED <<result, exc>>
  /\ UNCHANGED <<config, process, args, locals, ghosts>>

\* the caller has the result; the frame of the call is gone
Finish ==
  /\ pc = "done"
  /\ last' = IF \A s \in Stages : faults[s] \in {"none", "raised"}
             THEN [set |-> TRUE,
                   args |-> <<nasa_data, target_date, location_data, target_year>>,
                   result |-> result]
             ELSE NoLast
  /\ nasa_data' = PyNone /\ target_date' = <<>> /\ location_data' = PyNone
  /\ target_year' = None
  /\ enhanced_data' = <<>> /\ model_outputs' = <<>> /\ ensemble_predictions' = <<>>
  /\ ensemble_confidence' = <<>> /\ temporal_analysis' = <<>> /\ innovation_metrics' = <<>>
  /\ adaptive_weights' = <<>>
  /\ result' = <<>>
  /\ faults' = NoFaults
  /\ escaped' = {}
  /\ pc' = "idle"
  /\ UNCHANGED <<config, process, exc>>

Next ==
  \/ Tick
  \/ Call
  \/ Step1Aggregate
  \/ Step2Neural
  \/ Step3Statistical
  \/ Step4ML
  \/ Step5Physics
  \/ Step6Combine
  \/ Step6Confidence
  \/ Step7Temporal
  \/ Step8Innovation
  \/ Return
  \/ ExceptHandler
  \/ Finish

Spec == Init /\ [][Next]_vars

\* ------------------------------------------------------------ properties
Models == {"neural", "statistical", "ml", "physics"}
\* the fields of a complete result
ResultFields ==
  {"probabilities", "accuracy_metrics", "model_breakdown", "temporal_analysis",
   "innovation_metrics", "summary"}
Percent == 0..10000
\* the fusion steps, from the start of _combine_advanced_predictions to the return
FusionSteps == {"step6", "step6b", "step7", "step8", "return"}
\* no stage of the current call had a fault injected
FaultFree == \A s \in Stages : faults[s] \in {"none", "raised"}

\* C1: whatever the observation, date, location bundle and target year, and
\* whatever model or fusion faults occur, predict_ensemble_weather_risks
\* returns a result dictionary; no exception propagates to its caller.
C1_NoExceptionEscapes ==
  /\ pc # "raised"
  /\ pc = "done" => "probabilities" \in DOMAIN result

\* a call that ended although a model invocation and a fusion step both failed
C1_Witness ==
  /\ pc = "done"
  /\ faults["neural"] = "forced"
  /\ faults["fusion"] = "fault"
  /\ result = _get_ensemble_fallback

\* C2: every result returned, on the normal path and on the global-fallback
\* path alike, has all the result fields: probabilities, confidence metrics,
\* model_breakdown, temporal_analysis, innovation_metrics and summary.
C2_AllFieldsPresent ==
  pc = "done" => ResultFields \subseteq DOMAIN result

\* C3: for a valid observation (a dict of numbers with the five measurements
\* in their physical ranges) and a call without faults, with the regression
\* model present or absent, the five fused probabilities and the five probabilities of every
\* model_breakdown entry lie in [0,100].
C3_ProbabilitiesInRange ==
  LET d == nasa_data.items
      valid ==
        /\ nasa_data.kind = "dict"
        /\ {"temp_max", "temp_min", "humidity", "precipitation", "wind_speed"}
             \subseteq DOMAIN d
        /\ \A k \in DOMAIN d : IsNum(d[k])
        /\ d.humidity \in Percent
        /\ d.precipitation >= 0
        /\ d.wind_speed >= 0
        /\ d.temp_min <= d.temp_max
  IN (pc = "done" /\ valid /\ FaultFree) =>
       /\ \A r \in RiskSet : result.probabilities[r] \in Percent
       /\ "model_breakdown" \in DOMAIN result =>
            \A m \in DOMAIN result.model_breakdown : \A r \in RiskSet :
               result.model_breakdown[m].predictions[r] \in Percent

\* C4: once the fusion step has run, the adaptive weights applied to each
\* risk category sum to 1, up to the rounding of one unit per weight.
C4_WeightsSumToOne ==
  pc \in FusionSteps \ {"step6"} =>
    \A r \in RiskSet :
      Abs(SumSeq(adaptive_weights[r]) - 10000) <= Len(adaptive_weights[r])

\* C5: when exactly one of the four model invocations is forced to fail and
\* nothing else goes wrong, the result has every result field, five
\* probabilities, an overall_confidence in [0,100] and an uncertainty_level
\* of LOW, MODERATE or HIGH.
C5_SingleFailureTolerated ==
  (/\ pc = "done"
   /\ \E m \in Models : /\ faults[m] = "forced"
                        /\ \A s \in Stages \ {m} : faults[s] = "none")
  => /\ ResultFields \subseteq DOMAIN result
     /\ DOMAIN result.probabilities = RiskSet
     /\ DOMAIN result.model_breakdown = Models
     /\ result.accuracy_metrics.overall_confidence \in Percent
     /\ result.accuracy_metrics.uncertainty_level \in {"LOW", "MODERATE", "HIGH"}

\* a call that ended with the statistical model alone forced to fail
C5_Witness ==
  /\ pc = "done"
  /\ faults["statistical"] = "forced"
  /\ \A s \in Stages \ {"statistical"} : faults[s] = "none"
  /\ result.model_breakdown["statistical"].confidence = 6000

\* C6: when all four model invocations are forced to fail, the result is the
\* fixed global fallback: probabilities 30/20/35/25/40, overall_confidence 50,
\* uncertainty_level HIGH.
C6_TotalOutageGivesGlobalFallback ==
  (pc = "done" /\ \A m \in Models : faults[m] = "forced")
  => /\ result.probabilities = Risks(3000, 2000, 3500, 2500, 4000)
     /\ result.accuracy_metrics.overall_confidence = 5000
     /\ result.accuracy_metrics.uncertainty_level = "HIGH"

\* C7: a fault-free call with the observation, date, location bundle and
\* target year of the preceding fault-free call returns the result that call
\* returned.
C7_SameInputsSameResult ==
  (pc = "done" /\ FaultFree /\ last.set) => result = last.result

\* C8: no fault leaves a model entry point, and a model that met an internal
\* fault (a fault of first-use training included) hands the coordinator its
\* own fixed fallback: confidence 50 (neural), 60 (physics), 50 (regression).
C8_FaultsStayInsideModels ==
  /\ escaped = {}
  /\ \A m \in {"neural", "physics", "ml"} :
       (m \in DOMAIN model_outputs /\ faults[m] \in {"internal", "training"})
       => model_outputs[m].confidence = (IF m = "physics" THEN 6000 ELSE 5000)

\* C9: throughout the fusion steps model_outputs holds exactly the four
\* entries neural, statistical, ml and physics, each with a five-category
\* predictions map and a numeric confidence, and no fusion step changes it.
C9_OutputsCompleteAndFrozen ==
  /\ [](pc \in FusionSteps =>
          /\ DOMAIN model_outputs = Models
          /\ \A m \in Models : /\ DOMAIN model_outputs[m].predictions = RiskSet
                               /\ IsNum(model_outputs[m].confidence))
  /\ [][(pc \in FusionSteps) => (model_outputs' = model_outputs)]_vars

\* the last fusion step, with the regression model's own fallback among the outputs
C9_Witness ==
  /\ pc = "return"
  /\ faults["ml"] = "internal"
  /\ model_outputs["ml"].predictions = get_fallback_predictions.predictions

\* C10: in every result overall_confidence lies in [0,100], and
\* uncertainty_level is LOW above 80, MODERATE above 60 up to 80, else HIGH.
C10_LabelMatchesConfidence ==
  pc = "done" =>
    LET m == result.accuracy_metrics
    IN /\ m.overall_confidence \in Percent
       /\ m.uncertainty_level =
            (IF m.overall_confidence > 8000 THEN "LOW"
             ELSE IF m.overall_confidence > 6000 THEN "MODERATE"
             ELSE "HIGH")

\* a fused result whose confidence lies between the two cutoffs
C10_Witness ==
  /\ pc = "done"
  /\ "model_breakdown" \in DOMAIN result
  /\ result.accuracy_metrics.overall_confidence > 6000
  /\ result.accuracy_metrics.uncertainty_level = "MODERATE"

\* ------------------------------------------------------------ direct calls
\* A function of one of the models called directly, outside a request: the
\* coordinator is idle, enhanced_data holds the arguments of the call and
\* result what it returned.
DirectCall(position, arguments) ==
  /\ ml_weather_model = FALSE /\ ML_AVAILABLE = FALSE
  /\ weights = EnsembleWeatherPredictor_init(FALSE)
  /\ is_trained = FALSE /\ ml_models = NoRegressors
  /\ hash_seed = 0 /\ current_year = StartYear /\ ticks = 0
  /\ nasa_data = PyNone /\ target_date = <<>> /\ location_data = PyNone /\ target_year = None
  /\ model_outputs = <<>> /\ ensemble_predictions = <<>>
  /\ ensemble_confidence = <<>> /\ temporal_analysis = <<>> /\ innovation_metrics = <<>>
  /\ adaptive_weights = <<>>
  /\ exc = "" /\ result = <<>>
  /\ faults = NoFaults /\ escaped = {} /\ last = NoLast
  /\ pc = position
  /\ enhanced_data \in arguments

DirectReturn(position, returned, value) ==
  /\ pc = position
  /\ pc' = returned
  /\ result' = value
  /\ UNCHANGED <<config, process, args, enhanced_data, model_outputs, ensemble_predictions,
                 ensemble_confidence, temporal_analysis, innovation_metrics,
                 adaptive_weights, exc, ghosts>>

\* ------------------------------------------------------------ calculate_cold_risk, called directly
\* temperatures, wind speeds and humidities the calls draw from; humidity
\* 0..100 is a relative humidity, 250 and 300 are what a caller can still pass
InitCold ==
  LET ColdTemps ==
        {0 - 6000, 0 - 4000, 0 - 3500, 0 - 2500, 0 - 2000, 0 - 1600, 0 - 1400, 0 - 1000,
         0 - 500, 0 - 200, 0, 500, 900, 1000}
      ColdWinds == {300, 800, 1200, 2500, 3000}
      ColdHumidities == {0, 3500, 6000, 8500, 10000, 25000, 30000}
  IN DirectCall("cold_risk",
                {a \in [t1 : ColdTemps, t2 : ColdTemps, wind_speed : ColdWinds,
                        humidity : ColdHumidities] : a.t1 < a.t2})

\* cold_risk at the lower and at the higher temperature
CallColdRisk ==
  DirectReturn("cold_risk", "cold_risk_done",
               [low |-> calculate_cold_risk(enhanced_data.t1, enhanced_data.wind_speed,
                                            enhanced_data.humidity),
                high |-> calculate_cold_risk(enhanced_data.t2, enhanced_data.wind_speed,
                                             enhanced_data.humidity)])

SpecCold == InitCold /\ [][CallColdRisk]_vars

\* C11 as stated: for any fixed wind_speed and humidity and temperatures
\* t1 < t2 at or below 10 degrees, cold_risk(t1) >= cold_risk(t2).
C11_ColdRiskMonotone ==
  pc = "cold_risk_done" => result.low >= result.high

\* C11, amended: the same for every humidity up to 250, which includes every
\* relative humidity 0..100; there the dryness multiplier is not negative.
C11_ColdRiskMonotoneUpTo250 ==
  (pc = "cold_risk_done" /\ enhanced_data.humidity <= 25000) => result.low >= result.high

\* two temperatures on the two sides of the -15 degree breakpoint of the scale
C11_Witness ==
  /\ pc = "cold_risk_done"
  /\ enhanced_data.humidity \in Percent
  /\ result.high > 0
  /\ result.high < 5000
  /\ result.low > 5000

\* ------------------------------------------------------------ innovation score, called directly
\* One horizon's dict holds one of the model_type strings of the source, the
\* architecture string, or no model_type at all; the model outputs are as
\* steps 2-5 collect them, the neural entry without its score.
InitInnovation ==
  LET HorizonDicts ==
        {[model_type |-> TemporalConvolutionalNetwork], [model_type |-> SpectralAnalysis],
         [model_type |-> ChaosTheory], [model_type |-> model_architecture],
         [confidence |-> 6000]}
      PredictionMaps ==
        UNION {[S -> HorizonDicts] : S \in SUBSET {"short_term", "seasonal", "climate"}}
      three(neural_predictions, neural_confidence) ==
        [neural |-> [predictions |-> neural_predictions, confidence |-> neural_confidence,
                     detailed_results |-> _get_neural_fallback],
         statistical |-> [predictions |-> Risks(6000, 500, 1200, 2000, 5000),
                          confidence |-> 8000],
         physics |-> [predictions |-> Risks(9000, 0, 300, 1500, 7000), confidence |-> 8500]]
      OutputsWith(neural_predictions, neural_confidence, with_ml) ==
        IF with_ml
        THEN three(neural_predictions, neural_confidence)
               @@ ("ml" :> [predictions |-> Risks(2000, 4000, 3000, 2000, 1000),
                            confidence |-> 7500])
        ELSE three(neural_predictions, neural_confidence)
  IN DirectCall("innovation_score",
                [predictions : PredictionMaps,
                 outputs : {OutputsWith(p, c, m) :
                              p \in {Risks(3500, 2000, 4000, 2500, 4500),
                                     Risks(8000, 500, 1000, 3000, 6000)},
                              c \in {0, 5000}, m \in BOOLEAN},
                 other_score : {0, 8500, 10000}])

CallInnovationScore ==
  DirectReturn("innovation_score", "fuse",
               [innovation_score |-> _calculate_innovation_score(enhanced_data.predictions)])

\* the fusion on the same outputs, once with the computed score and once with
\* another one
CallFuseWithBothScores ==
  LET WithScore(innovation_score) ==
        [enhanced_data.outputs EXCEPT !["neural"] =
           enhanced_data.outputs["neural"] @@ ("innovation_score" :> innovation_score)]
  IN DirectReturn("fuse", "fused",
                  [innovation_score |-> result.innovation_score,
                   first |-> _combine_advanced_predictions(
                               WithScore(result.innovation_score), weights).combined,
                   second |-> _combine_advanced_predictions(
                                WithScore(enhanced_data.other_score), weights).combined])

SpecInnovation == InitInnovation /\ [][CallInnovationScore \/ CallFuseWithBothScores]_vars

\* C12: the innovation score never exceeds 100, and two fusions whose model
\* outputs differ only in the innovation score give identical probabilities.
C12_ScoreCappedAndIgnoredByFusion ==
  /\ pc \in {"fuse", "fused"} => result.innovation_score \in Percent
  /\ pc = "fused" => result.first = result.second

\* three horizons whose methods add up to more than 100, fused against a
\* different score
C12_Witness ==
  /\ pc = "fused"
  /\ DOMAIN enhanced_data.predictions = {"short_term", "seasonal", "climate"}
  /\ \A h \in DOMAIN enhanced_data.predictions :
        enhanced_data.predictions[h] = [model_type |-> model_architecture]
  /\ result.innovation_score = 10000
  /\ enhanced_data.other_score # result.innovation_score
  /\ result.first \in [RiskSet -> Percent]

\* ------------------------------------------------------------ the counted loops
\* the Lorenz loop run for one year of steps instead of `steps`
loop_count_OneYearOfSteps(function, steps) ==
  CASE function = "_evolve_lorenz_system" -> 365
    [] function = "_create_seasonal_time_series" -> 365
    [] function = "generate_synthetic_training_data" -> 6000

\* the length of the range each function iterates over: range(steps),
\* range(days) with days = 365, range(n_samples) with n_samples = 6000
loop_count(function, steps) ==
  CASE function = "_evolve_lorenz_system" -> steps
    [] function = "_create_seasonal_time_series" -> 365
    [] function = "generate_synthetic_training_data" -> 6000

\* _predict_climate_chaos passes steps=730; features is the array
\* _create_seasonal_time_series indexes, here by its length
InitLoops ==
  DirectCall("enter_loop",
             [function : {"_evolve_lorenz_system", "_create_seasonal_time_series",
                          "generate_synthetic_training_data"},
              steps : {730},
              features_len : 0..3])

\* the statements before the loop; result.i counts the iterations completed
EnterLoop == DirectReturn("enter_loop", "loop", [i |-> 0])

\* features[0] of an empty array (line 505)
BodyRaises ==
  enhanced_data.function = "_create_seasonal_time_series" /\ enhanced_data.features_len = 0

\* one pass through the body: the range yields the next index whatever the
\* body computed
LoopIteration ==
  /\ pc = "loop"
  /\ result.i < loop_count(enhanced_data.function, enhanced_data.steps)
  /\ ~BodyRaises
  /\ DirectReturn("loop", "loop", [i |-> result.i + 1])

LoopRaise ==
  /\ pc = "loop"
  /\ result.i < loop_count(enhanced_data.function, enhanced_data.steps)
  /\ BodyRaises
  /\ DirectReturn("loop", "loop_raised", result)

\* the range is exhausted
LoopReturn ==
  /\ pc = "loop"
  /\ result.i >= loop_count(enhanced_data.function, enhanced_data.steps)
  /\ DirectReturn("loop", "loop_returned", result)

NextLoops == EnterLoop \/ LoopIteration \/ LoopRaise \/ LoopReturn
\* the interpreter runs the one thread of the call until it returns
SpecLoops == InitLoops /\ [][NextLoops]_vars /\ WF_vars(NextLoops)

\* C13: every invocation of the three functions terminates, and a loop that
\* returns has run its fixed number of iterations: 730 Lorenz steps, 365
\* series samples, 6000 training samples.
C13_LoopsTerminateAfterFixedCount ==
  /\ <>(pc \in {"loop_returned", "loop_raised"})
  /\ [](pc = "loop_returned" =>
          result.i = CASE enhanced_data.function = "_evolve_lorenz_system" -> 730
                       [] enhanced_data.function = "_create_seasonal_time_series" -> 365
                       [] enhanced_data.function = "generate_synthetic_training_data" -> 6000)

\* the Lorenz evolution has returned after its 730 steps
C13_Witness ==
  /\ pc = "loop_returned"
  /\ enhanced_data.function = "_evolve_lorenz_system"
  /\ result.i = 730

\* C14: in both configurations the base weights are non-negative and sum to 1
\* (100 hundredths); with the regression model absent its weight is 0 and the
\* physics, statistical and horizon weights are each strictly larger than in
\* the full configuration.
C14_BaseWeights ==
  LET full == EnsembleWeatherPredictor_init(TRUE)
      others == {"physics_model", "statistical_model", "neural_model"}
  IN /\ DOMAIN weights = others \cup {"ml_model"}
     /\ \A k \in DOMAIN weights : weights[k] >= 0
     /\ weights.ml_model + weights.physics_model + weights.statistical_model
          + weights.neural_model = 100
     /\ ~ml_weather_model => /\ weights.ml_model = 0
                             /\ \A k \in others : weights[k] > full[k]

\* a request served in the absent configuration with its adjusted weights
C14_Witness ==
  /\ pc = "done"
  /\ ~ml_weather_model
  /\ weights.ml_model = 0
  /\ weights.neural_model = 45

\* C15: in a call without faults on 07-15, the desert-summer observation
\* (Dubai) gets a fused extreme_heat above its fused extreme_cold, and the
\* polar observation (Antarctica) a fused extreme_cold above its extreme_heat.
C15_DesertHotPolarCold ==
  (pc = "done" /\ FaultFree /\ target_date = Dates[1]) =>
     /\ nasa_data = Observations[1] =>
          result.probabilities.extreme_heat > result.probabilities.extreme_cold
     /\ nasa_data = Observations[3] =>
          result.probabilities.extreme_cold > result.probabilities.extreme_heat

\* the polar observation served as the diversity test calls it: no location
\* bundle, target year 2024
C15_Witness ==
  /\ pc = "done"
  /\ FaultFree
  /\ target_date = Dates[1]
  /\ nasa_data = Observations[3]
  /\ location_data = PyNone
  /\ target_year = 2024
  /\ result.probabilities.extreme_cold > result.probabilities.extreme_heat

\* the base weights under the names the model outputs carry
BaseWeightOf(base) ==
  [neural |-> base.neural_model, statistical |-> base.statistical_model,
   ml |-> base.ml_model, physics |-> base.physics_model]

\* C16: once the fusion step has run, each category's fused probability is
\* the sum of w_m * p_m with w_m = base_weight(m) * confidence(m)/100 * 1.2
\* (horizon model) * 1.1 (detailed results), normalised to sum 1; the
\* unweighted mean is used only when every such product is zero.
C16_FusedIsConfidenceWeightedSum ==
  pc \in FusionSteps \ {"step6"} =>
    ensemble_predictions =
      _combine_advanced_predictions(model_outputs, BaseWeightOf(weights)).combined

\* what _get_fallback_prediction is given for each model (lines 116, 128, 141,
\* 158) and the entry each model's own result gives (lines 106-111, 122-125,
\* 135-138, 151-154)
LocalFallbackOf(m) ==
  CASE m = "neural" ->
         _get_fallback_prediction(7000, PyNone, <<"0", "7", "-", "1", "5">>, hash_seed).value
    [] m = "statistical" ->
         _get_fallback_prediction(6000, nasa_data, target_date, hash_seed).value
    [] m = "ml" ->
         _get_fallback_prediction(6000, PyDict(enhanced_data), target_date, hash_seed).value
    [] m = "physics" ->
         _get_fallback_prediction(6500, PyDict(enhanced_data), target_date, hash_seed).value
OwnOutputOf(m) ==
  CASE m = "neural" ->
         LET neural_result == predict_multi_temporal(enhanced_data, target_date, target_year,
                                                     current_year, faults[m] = "internal")
         IN [predictions |-> neural_result.meta_ensemble.predictions,
             confidence |-> neural_result.meta_ensemble.meta_confidence.overall_confidence,
             innovation_score |-> Get(neural_result, "innovation_score", 8500),
             detailed_results |-> neural_result]
    [] m = "statistical" ->
         LET stat_result == _calculate_location_specific_statistics(nasa_data.items,
                                                                    target_date)
         IN [predictions |-> stat_result.value.predictions,
             confidence |-> stat_result.value.confidence]
    [] m = "ml" ->
         IF ml_weather_model
         THEN LET ml_result == predict_weather_risks(enhanced_data, target_date, target_year,
                                                     current_year, ML_AVAILABLE, ml_models,
                                                     faults[m] = "internal")
              IN [predictions |-> ml_result.predictions,
                  confidence |-> ml_result.model_confidence.overall_confidence]
         ELSE _statistical_ml_approximation(enhanced_data, target_date).value
    [] m = "physics" ->
         LET physics_result == predict_weather_risks_physics(enhanced_data, target_date,
                                                             location_data,
                                                             faults[m] = "internal")
         IN [predictions |-> physics_result.predictions,
             confidence |-> physics_result.physics_confidence.overall_confidence]

\* exactly the invocation of model m raised, and nothing failed in the
\* coordinator's own steps
OnlyRaised(m) ==
  /\ faults[m] \in {"forced", "raised", "training"}
  /\ \A o \in Models \ {m} : faults[o] \in {"none", "internal"}
  /\ faults["aggregate"] = "none"
  /\ faults["fusion"] = "none"

\* C17: when exactly one model invocation raises, the result is a normally
\* fused one, its model_breakdown entry for the failed model is the local
\* fallback with the fixed confidence (70 horizon, 60 statistical, 60
\* regression, 65 physics), and the other three entries are the models' own
\* outputs.
C17_OneFailureRecoveredLocally ==
  \A m \in Models :
    (pc = "done" /\ OnlyRaised(m)) =>
       /\ ResultFields \subseteq DOMAIN result
       /\ result.probabilities = ensemble_predictions
       /\ result.model_breakdown[m] = LocalFallbackOf(m)
       /\ result.model_breakdown[m].confidence =
            (CASE m = "neural" -> 7000 [] m = "statistical" -> 6000
               [] m = "ml" -> 6000 [] m = "physics" -> 6500)
       /\ \A o \in Models \ {m} : result.model_breakdown[o] = OwnOutputOf(o)

\* C18: if a step after the collection of the four model outputs (fusion,
\* confidence, temporal analysis, innovation metrics, summary) raises, the
\* call returns exactly the fixed global fallback: probabilities 30/20/35/25/40,
\* overall_confidence 50, uncertainty_level HIGH, and nothing of the
\* partially computed result.
C18_FusionFaultGivesGlobalFallback ==
  (pc = "done" /\ faults["fusion"] = "fault") =>
     /\ DOMAIN result = {"probabilities", "accuracy_metrics", "ensemble_method", "summary"}
     /\ result.probabilities = Risks(3000, 2000, 3500, 2500, 4000)
     /\ result.accuracy_metrics =
          [data_quality_score |-> 6000, statistical_confidence |-> 5000,
           model_reliability |-> 4000, overall_confidence |-> 5000,
           uncertainty_level |-> "HIGH"]
     /\ result.ensemble_method = "Fallback Mode"

\* the four outputs were collected without a fault, a later step raised, and
\* the fallback differs from what the fusion gives on these outputs
C18_Witness ==
  /\ pc = "done"
  /\ faults["fusion"] = "fault"
  /\ \A m \in Models : faults[m] = "none"
  /\ DOMAIN model_outputs = Models
  /\ result.probabilities = Risks(3000, 2000, 3500, 2500, 4000)
  /\ _combine_advanced_predictions(model_outputs, weights).combined # result.probabilities

\* C19: for a well-formed observation and date, the result of
\* predict_multi_temporal with the three horizons holds all three horizons,
\* each with five values and a confidence of its own, and a meta_ensemble
\* computed from them rather than the fixed fallback.
C19_ThreeHorizonsPredicted ==
  (/\ "neural" \in DOMAIN model_outputs
   /\ faults["neural"] = "none"
   /\ nasa_data \in {Observations[1], Observations[2], Observations[3]}
   /\ target_date = Dates[1])
  => LET neural_result == model_outputs["neural"].detailed_results
     IN /\ DOMAIN neural_result.predictions = {"short_term", "seasonal", "climate"}
        /\ \A h \in DOMAIN neural_result.predictions :
              /\ DOMAIN neural_result.predictions[h].predictions = RiskSet
              /\ "confidence_metrics" \in DOMAIN neural_result.predictions[h]
        /\ neural_result.methodology # "Neural Fallback Mode"
        /\ neural_result.meta_ensemble # _get_neural_fallback.meta_ensemble

\* ------------------------------------------------------------ meta-ensemble, called directly
\* A horizon's dict has five values and a confidence of 0, 50 or 90, or five
\* values and no confidence_metrics, or no predictions at all.
InitMeta ==
  LET Values == {Risks(1000, 2000, 3000, 4000, 5000), Risks(9000, 500, 4000, 2500, 6000)}
      HorizonDicts ==
        {[predictions |-> p, confidence_metrics |-> [overall_confidence |-> c]] :
           p \in Values, c \in {0, 5000, 9000}}
        \cup {[predictions |-> p] : p \in Values}
        \cup {[model_type |-> ChaosTheory]}
  IN DirectCall("meta_ensemble",
                [predictions :
                   UNION {[S -> HorizonDicts] :
                            S \in SUBSET {"short_term", "seasonal", "climate"}}])

CallMetaEnsemble ==
  DirectReturn("meta_ensemble", "meta_done",
               _meta_ensemble_prediction(enhanced_data.predictions))

SpecMeta == InitMeta /\ [][CallMetaEnsemble]_vars

\* the horizons that have a value for every category, their values for one
\* category and their confidences
MetaHorizons ==
  {h \in DOMAIN enhanced_data.predictions :
     "predictions" \in DOMAIN enhanced_data.predictions[h]}
MetaConfidence(h) ==
  Get(Get(enhanced_data.predictions[h], "confidence_metrics", <<>>),
      "overall_confidence", 5000)

\* C20: each category's meta-ensemble value is the confidence-weighted
\* average of the available horizons' values, the simple average when the
\* confidences are unusable (all zero); it is always finite and lies between
\* the smallest and the largest horizon value.
C20_MetaIsWeightedAverageInRange ==
  (pc = "meta_done" /\ MetaHorizons # {}) =>
    \A r \in RiskSet :
      LET value == result.predictions[r]
          of == [h \in MetaHorizons |-> enhanced_data.predictions[h].predictions[r]]
          hs == SelectSeq(HorizonOrder, LAMBDA h : h \in MetaHorizons)
          total == SumSeq([i \in 1..Len(hs) |-> MetaConfidence(hs[i])])
          dot == SumSeq([i \in 1..Len(hs) |-> of[hs[i]] * MetaConfidence(hs[i])])
          sum == SumSeq([i \in 1..Len(hs) |-> of[hs[i]]])
      IN /\ value # NaN
         /\ \E h \in MetaHorizons : of[h] <= value
         /\ \E h \in MetaHorizons : value <= of[h]
         /\ total > 0 => value = dot \div total
         /\ total = 0 => value = sum \div Len(hs)

\* ------------------------------------------------------------ temporal consistency, called directly
\* The short-term horizon has each category at 0, 50 or 100; the climate
\* horizon has every category at one of 0, 50, 50.01 and 100, or two
\* categories only; either may have no predictions or be missing.
InitConsistency ==
  LET Short == {Risks(h, c, p, w, d) : h \in {0, 5000, 10000}, c \in {0, 5000, 10000},
                                       p \in {0, 5000, 10000}, w \in {0, 5000, 10000},
                                       d \in {0, 5000, 10000}}
      Climate == {Risks(v, v, v, v, v) : v \in {0, 5000, 5001, 10000}}
                 \cup {[r \in {"extreme_heat", "heavy_precipitation"} |-> 5001]}
      Dicts(P) == {[predictions |-> p] : p \in P} \cup {[model_type |-> ChaosTheory]}
  IN DirectCall("temporal_consistency",
                [predictions :
                   {[h \in {"short_term", "climate"} |-> IF h = "climate" THEN c ELSE s] :
                      s \in Dicts(Short), c \in Dicts(Climate)}
                   \cup {[h \in {"short_term"} |-> s] : s \in Dicts(Short)}
                   \cup {[h \in {"seasonal", "climate"} |-> c] : c \in Dicts(Climate)}])

CallTemporalConsistency ==
  DirectReturn("temporal_consistency", "consistency_done",
               _calculate_temporal_consistency(enhanced_data.predictions))

SpecConsistency == InitConsistency /\ [][CallTemporalConsistency]_vars

\* C21: the temporal consistency is 80 less 10 for each category whose
\* short-term and climate values differ by more than 50 (a difference of
\* exactly 50 is not penalised), 80 when either horizon is missing, and
\* always one of 30, 40, 50, 60, 70, 80.
C21_ConsistencyIs80Less10PerDisagreement ==
  pc = "consistency_done" =>
    LET predictions == enhanced_data.predictions
        both == {"short_term", "climate"} \subseteq DOMAIN predictions
        values(h) == Get(predictions[h], "predictions", <<>>)
        apart == IF both
                 THEN {r \in RiskSet :
                         /\ r \in DOMAIN values("short_term") /\ r \in DOMAIN values("climate")
                         /\ \/ values("short_term")[r] - values("climate")[r] > 5000
                            \/ values("climate")[r] - values("short_term")[r] > 5000}
                 ELSE {}
    IN /\ result = 8000 - 1000 * Cardinality(apart)
       /\ result \in {3000, 4000, 5000, 6000, 7000, 8000}
       /\ ~both => result = 8000

\* a call where one category differs by exactly 50 and the four others by 100
C21_Witness ==
  /\ pc = "consistency_done"
  /\ result = 4000
  /\ {"short_term", "climate"} \subseteq DOMAIN enhanced_data.predictions
  /\ "predictions" \in DOMAIN enhanced_data.predictions["climate"]
  /\ "predictions" \in DOMAIN enhanced_data.predictions["short_term"]
  /\ \E r \in RiskSet :
       /\ enhanced_data.predictions["short_term"].predictions[r] = 5000
       /\ enhanced_data.predictions["climate"].predictions[r] = 0

\* ------------------------------------------------------------ statistical model, called directly
\* An observation has a latitude on, next to or between the band boundaries
\* in either hemisphere and one of five sets of fields: mild, none at all,
\* polar (negative temperatures), dry (precipitation 0) and hot and humid.
\* The date is the 15th of each month, or a date without a dash.
InitStatistics ==
  LET Latitudes == {s * a : s \in {1, 0 - 1},
                            a \in {0, 1, 999, 1000, 2349, 2350, 3499, 3500,
                                   4999, 5000, 6649, 6650, 9000}}
      Fields == {[temp_max |-> 2000, temp_min |-> 1500, humidity |-> 6000,
                  precipitation |-> 100, wind_speed |-> 500],
                 <<>>,
                 [temp_max |-> 0 - 2500, temp_min |-> 0 - 3500, humidity |-> 6000,
                  precipitation |-> 50, wind_speed |-> 3000],
                 [temp_max |-> 3000, temp_min |-> 2000, humidity |-> 5000,
                  precipitation |-> 0, wind_speed |-> 500],
                 [temp_max |-> 4000, temp_min |-> 2800, humidity |-> 8000,
                  precipitation |-> 1000, wind_speed |-> 800]}
      Months == {<<"0", "1">>, <<"0", "2">>, <<"0", "3">>, <<"0", "4">>, <<"0", "5">>,
                 <<"0", "6">>, <<"0", "7">>, <<"0", "8">>, <<"0", "9">>, <<"1", "0">>,
                 <<"1", "1">>, <<"1", "2">>}
  IN DirectCall("statistics",
                [nasa_data : {f @@ [lat |-> l] : f \in Fields, l \in Latitudes},
                 target_date : {m \o <<"-", "1", "5">> : m \in Months}
                               \cup {<<"0", "7", "1", "5">>}])

CallStatistics ==
  DirectReturn("statistics", "statistics_done",
               _calculate_location_specific_statistics(enhanced_data.nasa_data,
                                                       enhanced_data.target_date))

SpecStatistics == InitStatistics /\ [][CallStatistics]_vars

\* the month the call was made for, and whether its observation is the mild one
StatisticsMonth == ParseMonth(enhanced_data.target_date).value
StatisticsMild ==
  /\ Get(enhanced_data.nasa_data, "temp_max", 0) = 2000
  /\ Get(enhanced_data.nasa_data, "precipitation", 0) = 100

\* C22: every latitude gets exactly one zone from its absolute value
\* (equatorial < 10, tropical < 23.5, subtropical < 35, temperate < 50,
\* subpolar < 66.5, polar otherwise, a boundary value in the higher band),
\* with heat/cold baselines 70/5, 60/10, 50/20, 35/30, 20/50, 10/70 and
\* precipitation multipliers 1.5, 1.3, 1.0, 0.8, 0.6, 0.4.
C22_ZoneBandsAndBaselines ==
  pc = "statistics_done" =>
    LET a == Abs(enhanced_data.nasa_data.lat)
        band == CASE a < 1000 -> 1 [] a >= 1000 /\ a < 2350 -> 2
                  [] a >= 2350 /\ a < 3500 -> 3 [] a >= 3500 /\ a < 5000 -> 4
                  [] a >= 5000 /\ a < 6650 -> 5 [] a >= 6650 -> 6
        names == <<"equatorial", "tropical", "subtropical", "temperate", "subpolar", "polar">>
        heat == <<7000, 6000, 5000, 3500, 2000, 1000>>
        cold == <<500, 1000, 2000, 3000, 5000, 7000>>
        multiplier == <<150, 130, 100, 80, 60, 40>>
    IN /\ ~result.raised
       /\ result.value.climate_zone = names[band]
       /\ (StatisticsMild /\ StatisticsMonth \in {3, 4, 5, 9, 10, 11}) =>
            /\ result.value.predictions["extreme_heat"] = heat[band]
            /\ result.value.predictions["extreme_cold"] = cold[band]
       /\ (StatisticsMild /\ StatisticsMonth \in {6, 7, 8}) =>
            result.value.predictions["heavy_precipitation"] = 15 * multiplier[band]

\* a mild April observation at latitude -35, the lower edge of the temperate band
C22_Witness ==
  /\ pc = "statistics_done"
  /\ enhanced_data.nasa_data.lat = 0 - 3500
  /\ StatisticsMild /\ StatisticsMonth = 4
  /\ result.value.climate_zone = "temperate"
  /\ result.value.predictions["extreme_heat"] = 3500

\* C23: the hemisphere is northern for lat >= 0 and southern otherwise; the
\* heat and cold factors are 1.4 and 0.3 in that hemisphere's summer (June to
\* August north, December to February south), 0.4 and 1.6 in its winter and
\* 1.0 and 1.0 in every other month.
C23_SeasonalFactorsByHemisphere ==
  pc = "statistics_done" =>
    LET lat == enhanced_data.nasa_data.lat
        northern == lat >= 0
        JunToAug == StatisticsMonth \in {6, 7, 8}
        DecToFeb == StatisticsMonth \in {12, 1, 2}
        summer == IF northern THEN JunToAug ELSE DecToFeb
        winter == IF northern THEN DecToFeb ELSE JunToAug
        heat_factor == IF summer THEN 140 ELSE IF winter THEN 40 ELSE 100
        cold_factor == IF summer THEN 30 ELSE IF winter THEN 160 ELSE 100
    IN /\ result.value.seasonal_factor = heat_factor
       /\ StatisticsMild =>
            /\ result.value.predictions["extreme_heat"]
                 = Min(10000, Mul(ClimateZone(lat)[2], heat_factor))
            /\ result.value.predictions["extreme_cold"]
                 = Min(10000, Mul(ClimateZone(lat)[3], cold_factor))

\* a January call just south of the equator: summer there
C23_Witness ==
  /\ pc = "statistics_done"
  /\ enhanced_data.nasa_data.lat = 0 - 1
  /\ StatisticsMonth = 1
  /\ result.value.seasonal_factor = 140

\* C24: the confidence is (0.6 * f + 0.4 * z) * 100, f the fraction of
\* temp_max, temp_min, humidity, precipitation and wind_speed that the
\* observation supplies, z 0.9 in the tropical and temperate zones and 0.8 in
\* the others.
C24_ConfidenceFromSuppliedFields ==
  pc = "statistics_done" =>
    LET supplied == {"temp_max", "temp_min", "humidity", "precipitation", "wind_speed"}
                      \cap DOMAIN enhanced_data.nasa_data
        z == IF result.value.climate_zone \in {"tropical", "temperate"} THEN 90 ELSE 80
    IN result.value.confidence = (60 * Cardinality(supplied) * 100) \div 5 + 40 * z

\* ------------------------------------------------------------ one regression model, several request threads
\* app.py serves requests with app.run (line 149), whose server gives each
\* request its own thread; all of them call predict_weather_risks of the one
\* module-level ml_weather_model (ml_weather_predictor.py line 478).  In this
\* specification pc and enhanced_data are per thread, ml_models is
\* self.models and self.scalers by category, and result counts what happened:
\* calls by thread, executions of train_models, and whether a model was stored
\* while is_trained was already true.
Threads == {1, 2}
MaxCalls == 2

InitThreads ==
  /\ ml_weather_model = TRUE /\ ML_AVAILABLE \in BOOLEAN
  /\ weights = EnsembleWeatherPredictor_init(TRUE)
  /\ is_trained = FALSE /\ ml_models = [r \in RiskSet |-> NoRegressors]
  /\ hash_seed = 0 /\ current_year = StartYear /\ ticks = 0
  /\ nasa_data = PyNone /\ target_date = <<>> /\ location_data = PyNone /\ target_year = None
  /\ model_outputs = <<>> /\ ensemble_predictions = <<>>
  /\ ensemble_confidence = <<>> /\ temporal_analysis = <<>> /\ innovation_metrics = <<>>
  /\ adaptive_weights = <<>>
  /\ exc = ""
  /\ faults = NoFaults /\ escaped = {} /\ last = NoLast
  /\ pc = [t \in Threads |-> "idle"]
  /\ enhanced_data = [t \in Threads |-> [i |-> 1, fitted |-> NoRegressors]]
  /\ result = [calls |-> [t \in Threads |-> 0], trainings |-> 0, stored_when_trained |-> FALSE]

\* the variables no thread action touches
ThreadUnchanged ==
  UNCHANGED <<config, hash_seed, current_year, ticks, args, model_outputs,
              ensemble_predictions, ensemble_confidence, temporal_analysis,
              innovation_metrics, adaptive_weights, exc, ghosts>>

\* a request thread enters predict_weather_risks
ThreadCall(t) ==
  /\ pc[t] = "idle"
  /\ result.calls[t] < MaxCalls
  /\ pc' = [pc EXCEPT ![t] = "check"]
  /\ result' = [result EXCEPT !.calls[t] = @ + 1]
  /\ UNCHANGED <<is_trained, ml_models, enhanced_data>>
  /\ ThreadUnchanged

\* line 237: if not self.is_trained
ThreadCheck(t) ==
  /\ pc[t] = "check"
  /\ pc' = [pc EXCEPT ![t] = IF is_trained THEN "try" ELSE "train_models"]
  /\ UNCHANGED <<is_trained, ml_models, enhanced_data, result>>
  /\ ThreadUnchanged

\* line 239 and lines 160-174: train_models starts; without the libraries it
\* sets is_trained and returns, else it generates its data and enters the
\* loop over the categories
ThreadTrain(t) ==
  /\ pc[t] = "train_models"
  /\ result' = [result EXCEPT !.trainings = @ + 1]
  /\ IF ~ML_AVAILABLE
     THEN /\ is_trained' = TRUE
          /\ pc' = [pc EXCEPT ![t] = "try"]
          /\ UNCHANGED enhanced_data
     ELSE /\ \E fitted \in Regressors :
               enhanced_data' = [enhanced_data EXCEPT ![t] = [i |-> 1, fitted |-> fitted]]
          /\ pc' = [pc EXCEPT ![t] = "fit"]
          /\ UNCHANGED is_trained
  /\ UNCHANGED ml_models
  /\ ThreadUnchanged

\* lines 175-227: one pass of the loop fits and stores the models and the
\* scaler of one category
ThreadStore(t) ==
  /\ pc[t] = "fit"
  /\ enhanced_data[t].i <= Len(risk_types)
  /\ ml_models' = [ml_models EXCEPT ![risk_types[enhanced_data[t].i]] = enhanced_data[t].fitted]
  /\ enhanced_data' = [enhanced_data EXCEPT ![t].i = @ + 1]
  /\ result' = [result EXCEPT !.stored_when_trained = @ \/ is_trained]
  /\ UNCHANGED <<is_trained, pc>>
  /\ ThreadUnchanged

\* line 229: self.is_trained = True, and train_models returns
ThreadTrained(t) ==
  /\ pc[t] = "fit"
  /\ enhanced_data[t].i > Len(risk_types)
  /\ is_trained' = TRUE
  /\ pc' = [pc EXCEPT ![t] = "try"]
  /\ UNCHANGED <<ml_models, enhanced_data, result>>
  /\ ThreadUnchanged

\* lines 241-300: the try block computes the prediction and the call returns
ThreadReturn(t) ==
  /\ pc[t] = "try"
  /\ pc' = [pc EXCEPT ![t] = "idle"]
  /\ UNCHANGED <<is_trained, ml_models, enhanced_data, result>>
  /\ ThreadUnchanged

SpecThreads ==
  InitThreads /\ [][\E t \in Threads : \/ ThreadCall(t) \/ ThreadCheck(t) \/ ThreadTrain(t)
                                       \/ ThreadStore(t) \/ ThreadTrained(t)
                                       \/ ThreadReturn(t)]_vars

\* C25: for one regression model instance, over any sequence or interleaving
\* of predict_weather_risks calls, train_models executes at most once, and
\* once is_trained is true the stored models and scalers are never written
\* again.
C25_TrainedAtMostOnce ==
  /\ result.trainings <= 1
  /\ ~result.stored_when_trained

\* ------------------------------------------------------------ regression model, called directly
\* A new WeatherRiskMLModel, with or without the regression libraries, is
\* asked once for one of the observations that are dicts, on one of the
\* dates, for no year or 2030.
InitPredict ==
  /\ ml_weather_model = TRUE /\ ML_AVAILABLE \in BOOLEAN
  /\ weights = EnsembleWeatherPredictor_init(TRUE)
  /\ is_trained = FALSE /\ ml_models = NoRegressors
  /\ hash_seed = 0 /\ current_year = StartYear /\ ticks = 0
  /\ nasa_data = PyNone /\ target_date = <<>> /\ location_data = PyNone /\ target_year = None
  /\ model_outputs = <<>> /\ ensemble_predictions = <<>>
  /\ ensemble_confidence = <<>> /\ temporal_analysis = <<>> /\ innovation_metrics = <<>>
  /\ adaptive_weights = <<>>
  /\ exc = "" /\ result = <<>>
  /\ faults = NoFaults /\ escaped = {} /\ last = NoLast
  /\ pc = "predict_weather_risks"
  /\ enhanced_data \in [nasa_data : {Observations[i].items :
                                       i \in {j \in 1..Len(Observations) :
                                                Observations[j].kind = "dict"}},
                        target_date : {Dates[i] : i \in 1..Len(Dates)},
                        target_year : {None, 2030}]

\* lines 237-239 with train_models (without the libraries it only sets
\* is_trained, lines 160-163), then the try block and its handler
CallPredict ==
  /\ pc = "predict_weather_risks"
  /\ \E fitted \in (IF ML_AVAILABLE /\ ~is_trained THEN Regressors ELSE {ml_models}) :
       /\ ml_models' = fitted
       /\ result' = predict_weather_risks(enhanced_data.nasa_data, enhanced_data.target_date,
                                          enhanced_data.target_year, current_year,
                                          ML_AVAILABLE, fitted, FALSE)
  /\ is_trained' = TRUE
  /\ pc' = "predicted"
  /\ UNCHANGED <<config, hash_seed, current_year, ticks, args, enhanced_data, model_outputs,
                 ensemble_predictions, ensemble_confidence, temporal_analysis,
                 innovation_metrics, adaptive_weights, exc, ghosts>>

SpecPredict == InitPredict /\ [][CallPredict]_vars

\* the call's date is a month and a day that exist, and the values the
\* approximation computes with are numbers
PredictArgumentsUsable ==
  /\ ~Strptime(enhanced_data.target_date).raised
  /\ \A k \in {"temp_max", "temp_min", "precipitation", "wind_speed", "humidity", "lat"} :
       IsNum(Get(enhanced_data.nasa_data, k, 0))

\* what C26 says of a returned value: it is the tagged approximation, every
\* category between 0 and 100, and not the fixed failure values
PredictedByApproximation ==
  /\ ~ml_models.fitted
  /\ "method" \in DOMAIN result
  /\ result.method = "Statistical ML Approximation"
  /\ \A r \in RiskSet : result.predictions[r] >= 0 /\ result.predictions[r] <= 10000
  /\ result # get_fallback_predictions

PyFloat(x) ==
  IF x = None THEN [raised |-> "TypeError", value |-> x]
  ELSE IF IsNum(x) \/ x = NaN THEN [raised |-> "", value |-> x]
  ELSE [raised |-> "ValueError", value |-> x]

\* one coordinate range is enough
CoordinatesValid_LatitudeOnly(lat, lon) ==
  lat # NaN /\ 0 - 9000 <= lat /\ lat <= 9000

\* lines 70-71: -90 <= lat <= 90 and -180 <= lon <= 180; a comparison with
\* NaN is false
CoordinatesValid(lat, lon) ==
  /\ lat # NaN /\ 0 - 9000 <= lat /\ lat <= 9000
  /\ lon # NaN /\ 0 - 18000 <= lon /\ lon <= 18000

\* fetch_nasa_weather_data: None when the date is not two integers around a
\* dash or the request to NASA fails, else NASA's JSON
FetchResults(date) ==
  {PyNone} \cup (IF HasDash(date) /\ ~PyInt(SplitPart0(date)).raised
                    /\ ~PyInt(SplitPart1(date)).raised
                 THEN {Observations[6]} ELSE {})

\* The body of a request: lat and lon missing, no number, NaN or a number on
\* either side of the limits; date missing, empty, well-formed or not; year
\* missing, null, a string or a number on either side of the limits.  result
\* holds the handler's locals (date is <<>> for a missing date as for an
\* empty one: both are falsy), the status it answered with and whether it
\* called the predictor.
InitHandler ==
  /\ ml_weather_model = TRUE /\ ML_AVAILABLE = TRUE
  /\ weights = EnsembleWeatherPredictor_init(TRUE)
  /\ is_trained = FALSE /\ ml_models = NoRegressors
  /\ hash_seed = 0 /\ current_year = StartYear /\ ticks = 0
  /\ nasa_data = PyNone /\ target_date = <<>> /\ location_data = PyNone /\ target_year = None
  /\ model_outputs = <<>> /\ ensemble_predictions = <<>>
  /\ ensemble_confidence = <<>> /\ temporal_analysis = <<>> /\ innovation_metrics = <<>>
  /\ adaptive_weights = <<>>
  /\ exc = ""
  /\ faults = NoFaults /\ escaped = {} /\ last = NoLast
  /\ pc = "request"
  /\ enhanced_data \in
       {c @@ d @@ y :
          c \in [lat : {None, Opaque(1), NaN, 0, 4071, 9000, 9001, 0 - 9001},
                 lon : {None, 0, 0 - 7401, 18000, 18001, 0 - 18001}],
          d \in {<<>>} \cup {[date |-> v] : v \in {<<>>, Dates[1], Dates[2]}},
          y \in {<<>>} \cup {[year |-> v] : v \in {None, Opaque(2), StartYear - 6,
                                                   StartYear - 5, StartYear + 10,
                                                   StartYear + 11, StartYear + 12}}}
  /\ result = [lat |-> None, lon |-> None, date |-> <<>>, year |-> None,
               current_year |-> None, status |-> 0, invoked |-> FALSE]

\* the handler answers with a status; current_year (line 66) has been read
\* when the answer comes from line 68 or later
Respond(status) ==
  /\ pc' = "responded"
  /\ result' = [result EXCEPT !.status = status,
                              !.current_year = IF pc = "validate" /\ status # 0
                                                  /\ ~(result.lat = 0 \/ result.lon = 0
                                                       \/ result.date = <<>>)
                                               THEN current_year ELSE @]

\* lines 54-60: the body is read; float() of a missing or non-numeric
\* coordinate raises, and lines 111-116 answer 400 to a ValueError and 500 to
\* any other exception
HandlerParse ==
  /\ pc = "request"
  /\ LET lat == PyFloat(enhanced_data.lat)
         lon == PyFloat(enhanced_data.lon)
         raised == IF lat.raised # "" THEN lat.raised ELSE lon.raised
     IN IF raised # ""
        THEN Respond(IF raised = "ValueError" THEN 400 ELSE 500)
        ELSE /\ pc' = "validate"
             /\ result' = [result EXCEPT !.lat = lat.value, !.lon = lon.value,
                                         !.date = Get(enhanced_data, "date", <<>>),
                                         !.year = Get(enhanced_data, "year", current_year + 1)]
  /\ UNCHANGED <<config, process, args, enhanced_data, model_outputs, ensemble_predictions,
                 ensemble_confidence, temporal_analysis, innovation_metrics,
                 adaptive_weights, exc, ghosts>>

\* the year changes between the two datetime.now() of lines 60 and 66
HandlerTick ==
  /\ pc = "validate"
  /\ ticks < MaxTicks
  /\ current_year' = current_year + 1
  /\ ticks' = ticks + 1
  /\ UNCHANGED <<config, is_trained, ml_models, hash_seed, args, locals, pc, exc, result,
                 ghosts>>

\* lines 62-72: all([lat, lon, date]), the year against the current year (a
\* TypeError for a year that is no number), the coordinate ranges
HandlerValidate ==
  /\ pc = "validate"
  /\ IF result.lat = 0 \/ result.lon = 0 \/ result.date = <<>>
     THEN Respond(400)
     ELSE IF ~IsNum(result.year)
     THEN Respond(500)
     ELSE IF result.year < current_year - 5 \/ result.year > current_year + 10
     THEN Respond(400)
     ELSE IF ~CoordinatesValid(result.lat, result.lon)
     THEN Respond(400)
     ELSE /\ pc' = "fetch"
          /\ result' = [result EXCEPT !.current_year = current_year]
  /\ UNCHANGED <<config, process, args, enhanced_data, model_outputs, ensemble_predictions,
                 ensemble_confidence, temporal_analysis, innovation_metrics,
                 adaptive_weights, exc, ghosts>>

\* lines 77-80: the NASA data is fetched; without it the answer is 500
HandlerFetch ==
  /\ pc = "fetch"
  /\ \E fetched \in FetchResults(result.date) :
       /\ nasa_data' = fetched
       /\ IF ~Truthy(fetched)
          THEN Respond(500)
          ELSE pc' = "predict" /\ UNCHANGED result
  /\ UNCHANGED <<config, process, target_date, location_data, target_year, enhanced_data,
                 model_outputs, ensemble_predictions, ensemble_confidence,
                 temporal_analysis, innovation_metrics, adaptive_weights, exc, ghosts>>

\* lines 82-109: the predictor is called; the answer is 200, or 400 for a
\* ValueError (the '.1f' format of line 108 applied to 'N/A') and 500 for any
\* other exception on the way
HandlerPredict ==
  /\ pc = "predict"
  /\ \E status \in {200, 400, 500} :
       /\ pc' = "responded"
       /\ result' = [result EXCEPT !.invoked = TRUE, !.status = status]
  /\ UNCHANGED <<config, process, args, enhanced_data, model_outputs, ensemble_predictions,
                 ensemble_confidence, temporal_analysis, innovation_metrics,
                 adaptive_weights, exc, ghosts>>

SpecHandler ==
  InitHandler /\ [][HandlerParse \/ HandlerTick \/ HandlerValidate \/ HandlerFetch
                    \/ HandlerPredict]_vars

\* the request of C27 that passes validation: lat, lon and date supplied, the
\* coordinates within [-90, 90] x [-180, 180], the year within five years
\* before and ten years after the current one, and NASA data obtained
RequestValid ==
  /\ enhanced_data.lat # None /\ enhanced_data.lon # None /\ "date" \in DOMAIN enhanced_data
  /\ enhanced_data.lat >= 0 - 9000 /\ enhanced_data.lat <= 9000
  /\ enhanced_data.lon >= 0 - 18000 /\ enhanced_data.lon <= 18000
  /\ "year" \in DOMAIN enhanced_data =>
       LET year_read == IF result.current_year = None THEN current_year
                        ELSE result.current_year
       IN enhanced_data.year >= year_read - 5 /\ enhanced_data.year <= year_read + 10
  /\ Truthy(nasa_data)

\* C27: the handler of /api/weather calls the ensemble predictor only after
\* validation has passed; a request with lat, lon or date missing, coordinates
\* outside [-90, 90] x [-180, 180], a year outside [current - 5, current + 10]
\* or no NASA data is answered with an error status and the predictor is never
\* invoked for it.
C27_PredictorOnlyAfterValidation ==
  /\ [](result.invoked => RequestValid)
  /\ []((pc = "responded" /\ ~RequestValid) => (result.status \in {400, 500} /\ ~result.invoked))
  /\ [][(result'.invoked /\ ~result.invoked) => (pc = "predict")]_vars

\* a request within all limits answered after the predictor was called
C27_Witness ==
  /\ pc = "responded"
  /\ result.invoked /\ result.status = 200
  /\ enhanced_data.lat = 9000 /\ enhanced_data.lon = 18000
  /\ "year" \in DOMAIN enhanced_data /\ enhanced_data.year = StartYear + 11

\* ------------------------------------------------------------ fusion, called twice
\* The four model outputs hold one of two value maps each (the second with
\* values beyond both ends of the scale); the neural output has or lacks
\* detailed_results; the fusion runs once with the confidences `first` and
\* once with the confidences `second`, in either configuration of the weights.
InitFusion ==
  /\ ml_weather_model \in BOOLEAN /\ ML_AVAILABLE = FALSE
  /\ weights = EnsembleWeatherPredictor_init(ml_weather_model)
  /\ is_trained = FALSE /\ ml_models = NoRegressors
  /\ hash_seed = 0 /\ current_year = StartYear /\ ticks = 0
  /\ nasa_data = PyNone /\ target_date = <<>> /\ location_data = PyNone /\ target_year = None
  /\ model_outputs = <<>> /\ ensemble_predictions = <<>>
  /\ ensemble_confidence = <<>> /\ temporal_analysis = <<>> /\ innovation_metrics = <<>>
  /\ adaptive_weights = <<>>
  /\ exc = "" /\ result = <<>>
  /\ faults = NoFaults /\ escaped = {} /\ last = NoLast
  /\ pc = "fuse_twice"
  /\ LET Values == {Risks(3500, 2000, 4000, 2500, 4500),
                    Risks(12000, 0 - 500, 1000, 3000, 6000)}
         Confidences == {[neural |-> 5000, statistical |-> 5000, ml |-> 5000, physics |-> 5000],
                         [neural |-> 9000, statistical |-> 3000, ml |-> 6000, physics |-> 10000],
                         [neural |-> 0, statistical |-> 8000, ml |-> 7500, physics |-> 100],
                         [neural |-> 0, statistical |-> 0, ml |-> 0, physics |-> 0]}
     IN enhanced_data \in [values : [{"neural", "statistical", "ml", "physics"} -> Values],
                           detailed : BOOLEAN,
                           first : Confidences, second : Confidences]

\* the model outputs of a run: the values with that run's confidences
FusionOutputs(confidences) ==
  [m \in DOMAIN enhanced_data.values |->
     IF m = "neural" /\ enhanced_data.detailed
     THEN [predictions |-> enhanced_data.values[m], confidence |-> confidences[m],
           detailed_results |-> _get_neural_fallback]
     ELSE [predictions |-> enhanced_data.values[m], confidence |-> confidences[m]]]

CallFuseTwice ==
  DirectReturn("fuse_twice", "fused_twice",
               [first |-> _combine_advanced_predictions(FusionOutputs(enhanced_data.first),
                                                        weights).combined,
                second |-> _combine_advanced_predictions(FusionOutputs(enhanced_data.second),
                                                         weights).combined])

SpecFusion == InitFusion /\ [][CallFuseTwice]_vars

InitPhysics ==
  DirectCall("physics",
             [nasa_data : {p @@ Observations[i].items :
                             i \in {j \in 1..Len(Observations) :
                                      "temp_max" \in DOMAIN Observations[j].items},
                             p \in {<<>>} \cup {[pressure |-> v] :
                                                  v \in {101325, 101300, 87000, 108500}}},
              location_data : {PyNone, PyDict([lon |-> 0]), PyDict([lat |-> None])}
                              \cup {PyDict([lat |-> l]) :
                                      l \in {0 - 9000, 0 - 7780, 0, 500, 2520, 4071, 6415, 9000}}])

CallPhysics ==
  DirectReturn("physics", "physics_done",
               predict_weather_risks_physics(enhanced_data.nasa_data, Dates[1],
                                             enhanced_data.location_data, FALSE))

SpecPhysics == InitPhysics /\ [][CallPhysics]_vars

\* C29: whenever the physics model does not answer with its fallback, its
\* strong_winds risk is 100: even the smallest pressure gradient (1 hPa) with
\* no thermal wind at the call's latitude exceeds the 15 m/s ceiling.
C29_StrongWindsAlways100 ==
  (pc = "physics_done" /\ result # get_physics_fallback) =>
    LET location == enhanced_data.location_data
        latitude == IF Truthy(location) THEN Get(location.items, "lat", 0) ELSE 0
    IN /\ result.predictions["strong_winds"] = 10000
       /\ calculate_wind_risk(100, 0, latitude) = 10000

\* a call at the pole with standard pressure: the largest Coriolis parameter
\* and the floored gradient
C29_Witness ==
  /\ pc = "physics_done"
  /\ result # get_physics_fallback
  /\ Get(enhanced_data.nasa_data, "pressure", 0) = 101325
  /\ Truthy(enhanced_data.location_data)
  /\ enhanced_data.location_data.items.lat = 9000
  /\ result.predictions["strong_winds"] = 10000

\* C30: when the horizon model answers with its fixed fallback, which has
\* neither an innovation_score nor a temporal_consistency, the coordinator's
\* model_breakdown entry for it has confidence 50 and innovation_score 85, and
\* the confidence metrics report temporal_consistency 85.0 and
\* innovation_confidence 85.
C30_NeuralFallbackDefaults ==
  (/\ pc = "done"
   /\ "model_breakdown" \in DOMAIN result
   /\ "detailed_results" \in DOMAIN result.model_breakdown["neural"]
   /\ result.model_breakdown["neural"].detailed_results = _get_neural_fallback)
  => /\ result.model_breakdown["neural"].confidence = 5000
     /\ result.model_breakdown["neural"].innovation_score = 8500
     /\ result.accuracy_metrics.temporal_consistency = 8500
     /\ result.accuracy_metrics.innovation_confidence = 8500

\* a request answered with the horizon model's fallback among the outputs
C30_Witness ==
  /\ pc = "done"
  /\ "model_breakdown" \in DOMAIN result
  /\ faults["neural"] = "internal"
  /\ "detailed_results" \in DOMAIN result.model_breakdown["neural"]
  /\ result.model_breakdown["neural"].detailed_results.methodology = "Neural Fallback Mode"
  /\ result.accuracy_metrics.innovation_confidence = 8500

====
